---- MODULE Spec2Model ----
(***************************************************************************)
(* A model of the cElementTree accelerator (py3_cElementTree.c): the       *)
(* Element type with its child-sequence operations and the TreeBuilder     *)
(* state machine that turns start/data/end calls into an Element tree.     *)
(*                                                                         *)
(* Element objects live in a heap `elems`; an Element reference is its     *)
(* index in that heap (allocation order), Py_None is the reference 0 and   *)
(* a NULL pointer is -1.  Python strings are TLA+ strings.  The child      *)
(* array of an Element is modelled by its first `length` slots; the        *)
(* `allocated` capacity and the slots beyond `length` are not observable   *)
(* and are left out.                                                       *)
(***************************************************************************)
EXTENDS Integers, Sequences, FiniteSets, TLC

VARIABLES
    elems,      \* heap of ElementObject, indexed by reference 1..Len(elems)
    tb,         \* the TreeBuilderObject
    ret,        \* outcome of the last call: operation, arguments, value, error
    ndata,      \* number of data() calls made so far (bounds the run)
    dicts,      \* heap of attribute dictionaries, indexed by reference
    memo,       \* the memo dictionary the caller passes to __deepcopy__
    xp,         \* the XMLParserObject
    it          \* the iterparse object

vars == <<elems, tb, ret, ndata, dicts, memo, xp, it>>

(* ---------------------------- bounds ----------------------------------- *)

MaxElems == 3           \* Element objects created in one run
MaxData  == 3           \* data() calls in one builder run
MaxKids  == 4           \* children of one Element in the Element runs

(* ----------------------- program constants ----------------------------- *)

StackInit == 20         \* PyList_New(20) in treebuilder_new

None == 0               \* Py_None used as an element reference
NULL == -1              \* a NULL object pointer

Tags     == {"a"}
DataVals == {"hi", "there", "tail"}

\* arguments given to _setevents: no event list (None), or a tuple of names
NoEventSet   == [none |-> TRUE, names |-> <<>>]
EventSet(ns) == [none |-> FALSE, names |-> ns]
EventSets    == {NoEventSet, EventSet(<<"start">>), EventSet(<<"start", "end">>),
                 EventSet(<<"end", "bogus">>)}

(* ------------------------ Python objects -------------------------------- *)

\* text objects: None, a str, or a list of str
PyNone     == [t |-> "none", v |-> <<>>]
PyStr(s)   == [t |-> "str",  v |-> <<s>>]
PyList(l)  == [t |-> "list", v |-> l]
NullObj    == [t |-> "null", v |-> <<>>]

PyList_CheckExact(o) == o.t = "list"

\* tagged pointers used for ElementObject.text / .tail
JOIN_GET(p)       == p.join
JOIN_OBJ(p)       == [t |-> p.t, v |-> p.v]
JOIN_SET(o, flag) == [join |-> flag, t |-> o.t, v |-> o.v]

RECURSIVE list_join(_)
list_join(list) ==
    IF list = <<>> THEN "" ELSE Head(list) \o list_join(Tail(list))

\* the outcome of a call: its name and arguments, the value it returns (an
\* element reference and/or a text object) and the exception it raises
Ret(op, arg, node, obj, err) ==
    [op |-> op, arg |-> arg, node |-> node, obj |-> obj, err |-> err]

NoCall == Ret("none", "", NULL, NullObj, "none")

\* an empty memo dictionary
NoMemo == {}

\* a target object: the built-in TreeBuilder (TreeBuilder_CheckExact holds,
\* its state is `tb`), or a custom object with the methods it has and the
\* calls made to them so far
TreeBuilderTarget ==
    [exact |-> TRUE, methods |-> {"data", "start", "end", "close"}, calls |-> <<>>]

CustomTarget(methods) == [exact |-> FALSE, methods |-> methods, calls |-> <<>>]

TreeBuilder_CheckExact(target) == target.exact

\* the parser after construction with no target argument: an empty entity
\* dictionary, a new TreeBuilder as target and a tokenizer (the XML_Parser)
\* that has no namespace handlers, has read nothing, has met no error, and
\* keeps for every open element whether its start tag declares a namespace
xmlparser_new ==
    [entity |-> {},
     names  |-> {},      \* raw name -> universal name object
     made   |-> 0,       \* name objects created so far (their identities)
     target |-> TreeBuilderTarget,
     parser |-> [ns_handlers |-> FALSE,
                 rooted      |-> FALSE,
                 open        |-> <<>>,
                 pending_ns  |-> FALSE,
                 closing     |-> FALSE,
                 stopped     |-> FALSE]]

\* xmlparser_init(target): the parser looks up the handler methods of the
\* target; a missing one leaves the handle NULL and the error is cleared
xmlparser_init(target) == [xmlparser_new EXCEPT !.target = target]

handle_always(x, name) == TRUE

\* self->handle_<name> is not NULL
handle(x, name) == name \in x.target.methods

\* PyObject_CallFunction(self->handle_<name>, ...): the target gets the call
PyObject_CallFunction(x, name, args) ==
    [x EXCEPT !.target.calls = Append(@, [name |-> name, args |-> args])]

\* the branch of a handler for a target that is not the built-in builder:
\* the event goes to the target's method, or nowhere when there is none
call_target(x, name, args) ==
    IF handle(x, name) THEN PyObject_CallFunction(x, name, args) ELSE x

\* no iterparse object has been made
NoIter == [null |-> TRUE]

(* --------------------------- Element ------------------------------------ *)

\* ElementObjectExtra: absent (self->extra == NULL) or holding the children
NoExtra == [valid |-> FALSE, attrib |-> None, children |-> <<>>]

\* create_extra(self, attrib): a NULL attrib is stored as Py_None
create_extra(attrib) ==
    [valid |-> TRUE, attrib |-> IF attrib = NULL THEN None ELSE attrib,
     children |-> <<>>]

\* feed_new_element with no attributes: no extra block, text and tail None
create_new_element(tag) ==
    [tag   |-> tag,
     text  |-> JOIN_SET(PyNone, FALSE),
     tail  |-> JOIN_SET(PyNone, FALSE),
     extra |-> NoExtra]

Refs(els) == 1..Len(els)

Children(els, e) == els[e].extra.children

element_length(els, e) ==
    IF ~els[e].extra.valid THEN 0 ELSE Len(els[e].extra.children)

\* element_resize: make sure the extra block exists
element_resize(x) == IF x.valid THEN x ELSE create_extra(NULL)

element_add_subelement_front(els, self, element) ==
    LET x == IF els[self].extra.valid THEN els[self].extra
             ELSE [valid |-> TRUE, attrib |-> None, children |-> <<>>]
    IN  [els EXCEPT ![self].extra =
            [x EXCEPT !.children = <<element>> \o x.children]]

\* element_add_subelement: store the child in slot `length`, length++
element_add_subelement(els, self, element) ==
    LET x == element_resize(els[self].extra)
    IN  [els EXCEPT ![self].extra =
            [x EXCEPT !.children = Append(x.children, element)]]

\* the value element_get_text / element_get_tail return for a tagged pointer
joined_value(p) ==
    IF JOIN_GET(p)
    THEN IF PyList_CheckExact(JOIN_OBJ(p))
         THEN PyStr(list_join(p.v))
         ELSE JOIN_OBJ(p)
    ELSE JOIN_OBJ(p)

joined_slot_uncached(p) == p

\* the pointer they leave in the element (the joined string is cached)
joined_slot(p) ==
    IF JOIN_GET(p) /\ PyList_CheckExact(JOIN_OBJ(p))
    THEN JOIN_SET(PyStr(list_join(p.v)), FALSE)
    ELSE p

\* the bootstrap helper iter(node): pre-order, the node before its children
RECURSIVE iter(_, _)
RECURSIVE iter_children(_, _)
iter(els, node) == <<node>> \o iter_children(els, Children(els, node))

iter_children(els, kids) ==
    IF kids = <<>> THEN <<>>
    ELSE iter(els, Head(kids)) \o iter_children(els, Tail(kids))

(* ---------------------- Element child operations ----------------------- *)

\* PyObject_RichCompareBool(a, b, Py_EQ): identity, or the __eq__ of an
\* Element subclass; here the Elements in EqualRefs are instances of one
\* subclass whose instances all compare equal
EqualRefs == {3, 4}

PyObject_RichCompareBool(a, b) ==
    a = b \/ (a \in EqualRefs /\ b \in EqualRefs)

SetChildren(els, self, kids) ==
    [els EXCEPT ![self].extra = [element_resize(@) EXCEPT !.children = kids]]

\* an object that is not an instance of Element_Type (an int, a str, ...)
NotAnElement == -2

Element_Check_any(els, o) == TRUE

\* the "O!" converter of PyArg_ParseTuple and PyObject_IsInstance(o, &Element_Type)
Element_Check(els, o) == o \in Refs(els)

element_append(self, element) ==
    IF ~Element_Check(elems, element)
    THEN /\ ret' = Ret("append", [self |-> self, element |-> element],
                       NULL, NullObj, "TypeError")
         /\ UNCHANGED <<elems, tb, ndata, dicts, memo, xp, it>>
    ELSE /\ elems' = element_add_subelement(elems, self, element)
         /\ ret' = Ret("append", [self |-> self, element |-> element],
                       None, NullObj, "none")
         /\ UNCHANGED <<tb, ndata, dicts, memo, xp, it>>

\* the loop of element_extend: the items before the first non-Element are
\* added, then the loop returns the error
RECURSIVE extend_loop(_, _, _)
extend_loop(els, self, seq) ==
    IF seq = <<>> THEN [els |-> els, err |-> "none"]
    ELSE IF ~Element_Check(els, Head(seq))
         THEN [els |-> els, err |-> "TypeError"]
         ELSE extend_loop(element_add_subelement(els, self, Head(seq)),
                          self, Tail(seq))

element_extend(self, seq) ==
    LET r == extend_loop(elems, self, seq)
    IN  /\ elems' = r.els
        /\ ret' = Ret("extend", [self |-> self, seq |-> seq],
                      IF r.err = "none" THEN None ELSE NULL, NullObj, r.err)
        /\ UNCHANGED <<tb, ndata, dicts, memo, xp, it>>

\* SubElement(parent, tag): a new Element, added to the parent
subelement(parent, tag) ==
    /\ elems' = element_add_subelement(Append(elems, create_new_element(tag)),
                                       parent, Len(elems) + 1)
    /\ ret' = Ret("SubElement", [self |-> parent, tag |-> tag],
                  Len(elems) + 1, NullObj, "none")
    /\ UNCHANGED <<tb, ndata, dicts, memo, xp, it>>

insert_index_unfixed(index, length) ==
    LET i1 == IF index < 0 THEN 0 ELSE index
    IN  IF i1 > length THEN length ELSE i1

\* the index normalisation of element_insert
insert_index(index, length) ==
    LET i1 == IF index < 0
              THEN (IF index + length < 0 THEN 0 ELSE index + length)
              ELSE index
    IN  IF i1 > length THEN length ELSE i1

\* the shift loop and the store of element_insert, on 0-based slots
insert_shift(old, index, element) ==
    [i \in 1..(Len(old) + 1) |->
        IF i - 1 > index THEN old[i - 1]
        ELSE IF i - 1 = index THEN element
        ELSE old[i]]

element_insert(self, index, element) ==
    LET old == Children(elems, self)
        k   == insert_index(index, Len(old))
    IN  /\ elems' = SetChildren(elems, self, insert_shift(old, k, element))
        /\ ret' = Ret("insert", [self |-> self, index |-> index, element |-> element],
                      None, NullObj, "none")
        /\ UNCHANGED <<tb, ndata, dicts, memo, xp, it>>

RECURSIVE remove_find_identity(_, _, _)
remove_find_identity(kids, element, i) ==
    IF i > Len(kids) THEN i
    ELSE IF kids[i] = element THEN i
    ELSE remove_find_identity(kids, element, i + 1)

\* the search loop of element_remove: first slot identical or equal, or length
RECURSIVE remove_find(_, _, _)
remove_find(kids, element, i) ==
    IF i > Len(kids) THEN i
    ELSE IF kids[i] = element THEN i
    ELSE IF PyObject_RichCompareBool(kids[i], element) THEN i
    ELSE remove_find(kids, element, i + 1)

\* the close-up loop shared by element_remove and the deletion in element_setitem
delete_slot(kids, i) ==
    [j \in 1..(Len(kids) - 1) |-> IF j < i THEN kids[j] ELSE kids[j + 1]]

element_remove(self, element) ==
    LET kids == Children(elems, self)
        i    == remove_find(kids, element, 1)
        arg  == [self |-> self, element |-> element]
    IN  /\ IF ~elems[self].extra.valid
           THEN /\ elems' = elems
                /\ ret' = Ret("remove", arg, NULL, NullObj, "ValueError")
           ELSE IF i = Len(kids) + 1
           THEN /\ elems' = elems
                /\ ret' = Ret("remove", arg, NULL, NullObj, "ValueError")
           ELSE /\ elems' = SetChildren(elems, self, delete_slot(kids, i))
                /\ ret' = Ret("remove", arg, None, NullObj, "none")
        /\ UNCHANGED <<tb, ndata, dicts, memo, xp, it>>

\* the index adjustment in element_ass_subscr before element_setitem
subscr_index(els, self, i) ==
    IF i < 0 /\ els[self].extra.valid THEN i + element_length(els, self) ELSE i

\* elem[index] = item (item # NULL) and del elem[index] (item = NULL)
element_setitem(self, index, item) ==
    LET kids == Children(elems, self)
        i    == subscr_index(elems, self, index)
        arg  == [self |-> self, index |-> index, element |-> item]
    IN  /\ IF ~elems[self].extra.valid \/ i < 0 \/ i >= Len(kids)
           THEN /\ elems' = elems
                /\ ret' = Ret("setitem", arg, NULL, NullObj, "IndexError")
           ELSE /\ elems' = SetChildren(elems, self,
                               IF item # NULL
                               THEN [kids EXCEPT ![i + 1] = item]
                               ELSE delete_slot(kids, i + 1))
                /\ ret' = Ret("setitem", arg, None, NullObj, "none")
        /\ UNCHANGED <<tb, ndata, dicts, memo, xp, it>>

(* slices: a bound is None or an integer; the step is None or an integer *)
SliceNone   == [none |-> TRUE,  i |-> 0]
SliceInt(k) == [none |-> FALSE, i |-> k]

\* PySlice_GetIndicesEx(item, length, &start, &stop, &step, &slicelen)
slice_step(sl) == IF sl.step.none THEN 1 ELSE sl.step.i

slice_bound(b, length, step, dflt_neg, dflt_pos) ==
    IF b.none THEN (IF step < 0 THEN dflt_neg ELSE dflt_pos)
    ELSE LET v == IF b.i < 0 THEN b.i + length ELSE b.i
         IN  IF v < 0 THEN (IF step < 0 THEN -1 ELSE 0)
             ELSE IF v >= length THEN (IF step < 0 THEN length - 1 ELSE length)
             ELSE v

PySlice_GetIndicesEx(sl, length) ==
    LET step  == slice_step(sl)
        start == slice_bound(sl.start, length, step, length - 1, 0)
        stop  == slice_bound(sl.stop,  length, step, -1, length)
    IN  [start |-> start, stop |-> stop, step |-> step,
         slicelen |-> IF (step < 0 /\ stop >= start) \/ (step > 0 /\ start >= stop)
                      THEN 0
                      ELSE IF step < 0
                           THEN (start - stop - 1) \div (-step) + 1
                           ELSE (stop - start - 1) \div step + 1]

length_mismatch_longer(ix, newlen) == ix.step # 1 /\ newlen > ix.slicelen

\* extended slice with a replacement of another length
length_mismatch(ix, newlen) == ix.step # 1 /\ newlen # ix.slicelen

\* the "delete slice" / "insert slice" loops: slots from `stop` on move by d
slice_shift(old, stop, d) ==
    [j \in 0..(Len(old) + d - 1) |->
        IF j >= stop + d THEN old[j - d + 1]
        ELSE IF j < Len(old) THEN old[j + 1]
        ELSE NULL]

\* a replace loop that walks the replacement backwards
slice_replace_reversed(arr, start, step, seq) ==
    [j \in DOMAIN arr |->
        IF \E i \in 0..(Len(seq) - 1) : j = start + i * step
        THEN seq[Len(seq) - (CHOOSE i \in 0..(Len(seq) - 1) : j = start + i * step)]
        ELSE arr[j]]

\* the "replace the slice" loop: slot start + i*step takes seq[i]
slice_replace(arr, start, step, seq) ==
    [j \in DOMAIN arr |->
        IF \E i \in 0..(Len(seq) - 1) : j = start + i * step
        THEN seq[(CHOOSE i \in 0..(Len(seq) - 1) : j = start + i * step) + 1]
        ELSE arr[j]]

\* elem[start:stop:step] = seq
element_ass_subscr(self, sl, seq) ==
    LET old    == Children(elems, self)
        arg    == [self |-> self, slice |-> sl, seq |-> seq]
        extra1 == SetChildren(elems, self, old)   \* create_extra when missing
    IN  /\ IF slice_step(sl) = 0
           THEN /\ elems' = extra1
                /\ ret' = Ret("setslice", arg, NULL, NullObj, "ValueError:step")
           ELSE LET ix     == PySlice_GetIndicesEx(sl, Len(old))
                    newlen == Len(seq)
                    d      == newlen - ix.slicelen
                    arr    == slice_replace(slice_shift(old, ix.stop, d),
                                            ix.start, ix.step, seq)
                IN  IF length_mismatch(ix, newlen)
                    THEN /\ elems' = extra1
                         /\ ret' = Ret("setslice", arg, NULL, NullObj, "ValueError")
                    ELSE /\ elems' = SetChildren(elems, self,
                                        [j \in 1..(Len(old) + d) |-> arr[j - 1]])
                         /\ ret' = Ret("setslice", arg, None, NullObj, "none")
        /\ UNCHANGED <<tb, ndata, dicts, memo, xp, it>>

\* memmove(children + dst, children + src, cnt * sizeof(PyObject *))
memmove(arr, dst, src, cnt) ==
    [j \in DOMAIN arr |->
        IF j >= dst /\ j < dst + cnt THEN arr[src + (j - dst)] ELSE arr[j]]

\* "make it always ascending": the range of a descending slice, turned round
delete_range(ix) ==
    IF ix.step < 0
    THEN LET stop == ix.start + 1
         IN  [start |-> stop + ix.step * (ix.slicelen - 1) - 1,
              stop  |-> stop,
              step  |-> 0 - ix.step]
    ELSE [start |-> ix.start, stop |-> ix.stop, step |-> ix.step]

\* the loop over the children to delete: the children between two deleted
\* ones move down by the number already deleted
RECURSIVE delete_loop(_, _, _, _, _, _)
delete_loop(arr, length, cur, stop, step, i) ==
    IF cur < stop
    THEN LET num_moved == IF cur + step >= length
                          THEN length - cur - 1
                          ELSE step - 1
         IN  delete_loop(memmove(arr, cur - i, cur + 1, num_moved),
                         length, cur + step, stop, step, i + 1)
    ELSE arr

\* a deletion that leaves the children after the last deleted one in place
delete_tail_skipped(arr, length, cur, slicelen) == arr

\* leftover "tail" after the last removed child
delete_tail(arr, length, cur, slicelen) ==
    IF cur < length
    THEN memmove(arr, cur - slicelen, cur, length - cur)
    ELSE arr

\* del elem[start:stop:step]  (element_ass_subscr with value == NULL)
element_ass_subscr_delete(self, sl) ==
    LET old    == Children(elems, self)
        arg    == [self |-> self, slice |-> sl]
        extra1 == SetChildren(elems, self, old)   \* create_extra when missing
    IN  /\ IF slice_step(sl) = 0
           THEN /\ elems' = extra1
                /\ ret' = Ret("delslice", arg, NULL, NullObj, "ValueError:step")
           ELSE LET ix == PySlice_GetIndicesEx(sl, Len(old))
                    r  == delete_range(ix)
                    a0 == [j \in 0..(Len(old) - 1) |-> old[j + 1]]
                    a1 == delete_loop(a0, Len(old), r.start, r.stop, r.step, 0)
                    a2 == delete_tail(a1, Len(old),
                                      r.start + ix.slicelen * r.step, ix.slicelen)
                IN  IF ix.slicelen <= 0
                    THEN /\ elems' = extra1
                         /\ ret' = Ret("delslice", arg, None, NullObj, "none")
                    ELSE /\ elems' = SetChildren(elems, self,
                                        [j \in 1..(Len(old) - ix.slicelen) |-> a2[j - 1]])
                         /\ ret' = Ret("delslice", arg, None, NullObj, "none")
        /\ UNCHANGED <<tb, ndata, dicts, memo, xp, it>>

(* ------------------------- TreeBuilder ---------------------------------- *)

NoEvents == [null |-> TRUE, items |-> <<>>]

treebuilder_new ==
    [root  |-> NULL,
     this  |-> None,
     last  |-> None,
     data  |-> NullObj,
     stack |-> [i \in 1..StackInit |-> NULL],
     index |-> 0,
     events |-> NoEvents,
     start_event_obj    |-> FALSE,
     end_event_obj      |-> FALSE,
     start_ns_event_obj |-> FALSE,
     end_ns_event_obj   |-> FALSE]

treebuilder_set_element_text_lost(els, element, data) == els

\* treebuilder_set_element_text_or_tail for an exact Element
treebuilder_set_element_text(els, element, data) ==
    [els EXCEPT ![element].text = JOIN_SET(data, PyList_CheckExact(data))]

treebuilder_set_element_tail_as_text(els, element, data) ==
    [els EXCEPT ![element].text = JOIN_SET(data, PyList_CheckExact(data))]

treebuilder_set_element_tail(els, element, data) ==
    [els EXCEPT ![element].tail = JOIN_SET(data, PyList_CheckExact(data))]

\* the flush at the head of treebuilder_handle_start / treebuilder_handle_end
flush_to_text_swapped(t) == t.this # t.last

flush_to_text(t) == t.this = t.last

flush_data_skipped(els, t) == els

flush_data(els, t) ==
    IF t.data = NullObj THEN els
    ELSE IF flush_to_text(t)
         THEN treebuilder_set_element_text(els, t.last, t.data)
         ELSE treebuilder_set_element_tail(els, t.last, t.data)

stack_push_bottom(stack, index, this) == [stack EXCEPT ![1] = this]

\* PyList_SetItem / PyList_Append of the previous `this` on the stack
stack_push(stack, index, this) ==
    IF index < Len(stack)
    THEN [stack EXCEPT ![index + 1] = this]
    ELSE Append(stack, this)

\* PyList_Append(self->events, (action, node)) when the event is enabled
append_event_front(t, enabled, kind, payload) ==
    IF enabled
    THEN [t.events EXCEPT !.items = <<[kind |-> kind, payload |-> payload]>> \o @]
    ELSE t.events

append_event(t, enabled, kind, payload) ==
    IF enabled
    THEN [t.events EXCEPT !.items = Append(@, [kind |-> kind, payload |-> payload])]
    ELSE t.events

multiple_roots_unchecked(t) == FALSE

\* a start with no open element although a root exists
multiple_roots(t) == t.this = None /\ t.root # NULL

treebuilder_handle_start(tag) ==
    LET flushed == flush_data(elems, tb)
        node    == Len(elems) + 1
        t0      == [tb EXCEPT !.data = NullObj]
    IN  IF multiple_roots(tb)
        THEN \* the new node is released again; nothing but the flush remains
             /\ elems' = flushed
             /\ tb' = t0
             /\ ret' = Ret("start", tag, NULL, NullObj, "ParseError")
        ELSE /\ Len(elems) < MaxElems
             /\ LET created == Append(flushed, create_new_element(tag))
                    t1 == [t0 EXCEPT
                            !.root  = IF tb.this = None THEN node ELSE @,
                            !.stack = stack_push(@, tb.index, tb.this),
                            !.index = @ + 1,
                            !.this  = node,
                            !.last  = node]
                IN  /\ elems' = IF tb.this # None
                                THEN element_add_subelement(created, tb.this, node)
                                ELSE created
                    /\ tb' = [t1 EXCEPT !.events =
                                append_event(t1, t1.start_event_obj, "start", node)]
                    /\ ret' = Ret("start", tag, node, NullObj, "none")

treebuilder_start(tag) ==
    /\ treebuilder_handle_start(tag)
    /\ UNCHANGED <<ndata, dicts, memo, xp, it>>

data_promote_rev(first, data) == PyList(<<data, first>>)

\* the promotion of the collector to a list at the second fragment
data_promote(first, data) == PyList(<<first, data>>)

treebuilder_handle_data_early(t, data) ==
    IF t.data = NullObj
    THEN [t EXCEPT !.data = PyStr(data)]
    ELSE IF PyList_CheckExact(t.data)
         THEN [t EXCEPT !.data = PyList(Append(t.data.v, data))]
         ELSE [t EXCEPT !.data = PyList(<<t.data.v[1], data>>)]

treebuilder_handle_data(t, data) ==
    IF t.data = NullObj
    THEN IF t.last = None
         THEN t       \* ignore calls to data before the first call to start
         ELSE [t EXCEPT !.data = PyStr(data)]
    ELSE IF PyList_CheckExact(t.data)
         THEN [t EXCEPT !.data = PyList(Append(t.data.v, data))]
         ELSE [t EXCEPT !.data = data_promote(t.data.v[1], data)]

treebuilder_data(data) ==
    /\ ndata' = ndata + 1
    /\ tb' = treebuilder_handle_data(tb, data)
    /\ ret' = Ret("data", data, None, NullObj, "none")
    /\ UNCHANGED <<elems, dicts, memo, xp, it>>

\* an end with an empty stack
stack_underflow(t) == t.index = 0

end_underflow_late(t) == [t EXCEPT !.last = t.this]

\* the builder as the "pop from empty stack" return leaves it
end_underflow(t) == t

treebuilder_handle_end_all(tag) ==
    LET flushed == flush_data(elems, tb)
        t0      == [tb EXCEPT !.data = NullObj]
    IN  IF stack_underflow(tb)
        THEN /\ elems' = flushed
             /\ tb' = end_underflow(t0)
             /\ ret' = Ret("end", tag, NULL, NullObj, "IndexError")
        ELSE LET t1 == [t0 EXCEPT
                         !.index = 0,
                         !.last  = tb.stack[tb.index],
                         !.this  = None]
             IN  /\ elems' = flushed
                 /\ tb' = [t1 EXCEPT !.events =
                             append_event(t1, t1.end_event_obj, "end", t1.last)]
                 /\ ret' = Ret("end", tag, t1.last, NullObj, "none")

treebuilder_handle_end(tag) ==
    LET flushed == flush_data(elems, tb)
        t0      == [tb EXCEPT !.data = NullObj]
    IN  IF stack_underflow(tb)
        THEN /\ elems' = flushed
             /\ tb' = end_underflow(t0)
             /\ ret' = Ret("end", tag, NULL, NullObj, "IndexError")
        ELSE LET t1 == [t0 EXCEPT
                         !.index = @ - 1,
                         !.last  = tb.this,
                         !.this  = tb.stack[tb.index]]
             IN  /\ elems' = flushed
                 /\ tb' = [t1 EXCEPT !.events =
                             append_event(t1, t1.end_event_obj, "end", t1.last)]
                 /\ ret' = Ret("end", tag, t1.last, NullObj, "none")

treebuilder_end(tag) ==
    /\ treebuilder_handle_end(tag)
    /\ UNCHANGED <<ndata, dicts, memo, xp, it>>

treebuilder_done_last == tb.last

treebuilder_done == IF tb.root # NULL THEN tb.root ELSE None

treebuilder_close ==
    /\ ret' = Ret("close", "", treebuilder_done, NullObj, "none")
    /\ UNCHANGED <<elems, tb, ndata, dicts, memo, xp, it>>

\* reading elem.text / elem.tail joins a builder-made fragment list in place
element_get_text(self) ==
    /\ elems' = [elems EXCEPT ![self].text = joined_slot(@)]
    /\ ret' = Ret("get_text", "", self, joined_value(elems[self].text), "none")
    /\ UNCHANGED <<tb, ndata, dicts, memo, xp, it>>

element_get_tail(self) ==
    /\ elems' = [elems EXCEPT ![self].tail = joined_slot(@)]
    /\ ret' = Ret("get_tail", "", self, joined_value(elems[self].tail), "none")
    /\ UNCHANGED <<tb, ndata, dicts, memo, xp, it>>

(* ---------------------- XMLParser._setevents ----------------------------- *)

\* one pass of the loop over the event tuple; stops at the first unknown name
RECURSIVE setevents_loop(_, _)
setevents_loop(t, names) ==
    IF names = <<>> THEN [t |-> t, err |-> "none"]
    ELSE LET event == Head(names)
         IN  IF event = "start"
             THEN setevents_loop([t EXCEPT !.start_event_obj = TRUE], Tail(names))
             ELSE IF event = "end"
             THEN setevents_loop([t EXCEPT !.end_event_obj = TRUE], Tail(names))
             ELSE IF event = "start-ns"
             THEN setevents_loop([t EXCEPT !.start_ns_event_obj = TRUE], Tail(names))
             ELSE IF event = "end-ns"
             THEN setevents_loop([t EXCEPT !.end_ns_event_obj = TRUE], Tail(names))
             ELSE [t |-> t, err |-> "ValueError"]

\* the loop calls SetNamespaceDeclHandler when it meets "start-ns" or "end-ns"
RECURSIVE setevents_registers(_)
setevents_registers(names) ==
    IF names = <<>> THEN FALSE
    ELSE IF Head(names) \in {"start-ns", "end-ns"} THEN TRUE
    ELSE IF Head(names) \in {"start", "end"} THEN setevents_registers(Tail(names))
    ELSE FALSE

setevents_clear_kept(t) == [t EXCEPT !.events = [null |-> FALSE, items |-> <<>>]]

\* the new collector is installed and the existing events are cleared out
setevents_clear(t) ==
    [t EXCEPT !.events = [null |-> FALSE, items |-> <<>>],
              !.start_event_obj    = FALSE,
              !.end_event_obj      = FALSE,
              !.start_ns_event_obj = FALSE,
              !.end_ns_event_obj   = FALSE]

\* the caller hands in a new, empty list as the event collector
xmlparser_setevents(event_set) ==
    LET cleared == setevents_clear(tb)
        looped  == setevents_loop(cleared, event_set.names)
    IN  /\ tb' = IF event_set.none
                 THEN [cleared EXCEPT !.end_event_obj = TRUE]
                 ELSE looped.t
        /\ xp' = IF ~event_set.none /\ setevents_registers(event_set.names)
                 THEN [xp EXCEPT !.parser.ns_handlers = TRUE]
                 ELSE xp
        /\ ret' = Ret("setevents", event_set, None, NullObj,
                      IF event_set.none THEN "none" ELSE looped.err)
        /\ UNCHANGED <<elems, ndata, dicts, memo, it>>

(* ----------------------- builder specification -------------------------- *)

Init ==
    /\ elems = <<>>
    /\ tb = treebuilder_new
    /\ ret = NoCall
    /\ ndata = 0
    /\ dicts = <<>>
    /\ memo = NoMemo
    /\ xp = xmlparser_new
    /\ it = NoIter

Next ==
    \/ \E tag \in Tags : treebuilder_start(tag)
    \/ \E data \in DataVals : ndata < MaxData /\ treebuilder_data(data)
    \/ \E tag \in Tags : treebuilder_end(tag)

Spec == Init /\ [][Next]_vars

(* --------------- builder specification with event recording ------------- *)

MaxDataEv == 2          \* data() calls in one run with event recording
EvDataVals == {"hi"}

\* the tags given to end: the tag of the open element, or another one
EndTags == Tags \cup {"z"}

NextEv ==
    \/ \E event_set \in EventSets : xmlparser_setevents(event_set)
    \/ \E tag \in Tags : treebuilder_start(tag)
    \/ \E data \in EvDataVals : ndata < MaxDataEv /\ treebuilder_data(data)
    \/ \E tag \in EndTags : treebuilder_end(tag)
    \/ treebuilder_close

SpecEv == Init /\ [][NextEv]_vars

(* ======================= properties of the builder ====================== *)

\* what elem.text / elem.tail reads back once the collector d is flushed
flushed_text(d) == joined_value(JOIN_SET(d, PyList_CheckExact(d)))

IsNoneText(p) == JOIN_OBJ(p) = PyNone

\* C1 -- flush rule: when start or end finds pending character data, the
\* data becomes the text of `last` if `this` is `last`, and the tail of
\* `last` otherwise; the other slot of `last` is left alone.
C1_FlushRule ==
    [][ (ret'.op \in {"start", "end"} /\ tb.data # NullObj) =>
          IF tb.this = tb.last
          THEN /\ joined_value(elems'[tb.last].text) = PyStr(list_join(tb.data.v))
               /\ elems'[tb.last].tail = elems[tb.last].tail
          ELSE /\ joined_value(elems'[tb.last].tail) = PyStr(list_join(tb.data.v))
               /\ elems'[tb.last].text = elems[tb.last].text ]_vars

\* start a, start b, data hi, start c, end c, data there, end b, data tail,
\* end a: b.text = hi, c.text none, c.tail = there, b.tail = tail
C1_Witness ==
    /\ Len(elems) = 3 /\ tb.index = 0 /\ ret.op = "end"
    /\ Children(elems, 1) = <<2>> /\ Children(elems, 2) = <<3>>
    /\ joined_value(elems[2].text) = PyStr("hi")
    /\ IsNoneText(elems[3].text)
    /\ joined_value(elems[3].tail) = PyStr("there")
    /\ joined_value(elems[2].tail) = PyStr("tail")

\* C2 -- document order: a successful start appends the new element as the
\* last child of the element that was current, and the pre-order traversal
\* iter(root) yields every element once, in the order of the start calls
\* (element references are numbered in that order).
C2_DocumentOrder ==
    [][ /\ (ret'.op = "start" /\ ret'.err = "none" /\ tb.this # None) =>
              /\ ret'.node = Len(elems) + 1
              /\ Children(elems', tb.this) = Append(Children(elems, tb.this), ret'.node)
        /\ tb'.root # NULL =>
              iter(elems', tb'.root) = [i \in 1..Len(elems') |-> i] ]_vars

C2_Witness ==
    /\ Len(elems) = 3 /\ ret.op = "start"
    /\ Children(elems, 1) = <<2, 3>>
    /\ iter(elems, tb.root) = <<1, 2, 3>>

\* C3 -- fragmentation transparency: after data(d) the collector reads back
\* as the text it read back as before followed by d, which is also what a
\* single data call with the whole text reads back as.
C3_Fragmentation ==
    [][ (ret'.op = "data" /\ tb.last # None) =>
          LET whole  == list_join(tb.data.v) \o ret'.arg
              single == treebuilder_handle_data([tb EXCEPT !.data = NullObj], whole)
          IN  /\ flushed_text(tb'.data) = PyStr(whole)
              /\ flushed_text(tb'.data) = flushed_text(single.data) ]_vars

C3_Witness ==
    /\ ret.op = "data"
    /\ PyList_CheckExact(tb.data) /\ Len(tb.data.v) = 3
    /\ tb.data.v[1] # tb.data.v[2]

SameChildren(els1, els2) ==
    /\ Len(els1) = Len(els2)
    /\ \A e \in Refs(els1) : els1[e].extra = els2[e].extra

\* C4 -- multiple roots: start with no element open but a root present
\* raises the multiple-roots error; the root, every child sequence, the
\* current element, the stack and the event queue stay as they were.
C4_MultipleRoots ==
    [][ (ret'.op = "start" /\ tb.this = None /\ tb.root # NULL) =>
          /\ ret'.err = "ParseError"
          /\ tb'.root = tb.root
          /\ SameChildren(elems', elems)
          /\ tb'.this = tb.this
          /\ tb'.index = tb.index /\ tb'.stack = tb.stack
          /\ tb'.events = tb.events ]_vars

C4_Witness ==
    /\ ret.op = "start" /\ ret.err = "ParseError"
    /\ tb.start_event_obj /\ tb.events.items # <<>>

\* C5 -- stack underflow: end with no element open raises an error; the
\* stack depth, the stack, current and last are unchanged and no event is
\* enqueued.
C5_StackUnderflow ==
    [][ (ret'.op = "end" /\ tb.index = 0) =>
          /\ ret'.err = "IndexError"
          /\ tb'.index = tb.index /\ tb'.stack = tb.stack
          /\ tb'.this = tb.this /\ tb'.last = tb.last
          /\ tb'.events = tb.events ]_vars

C5_Witness ==
    /\ ret.op = "end" /\ ret.err = "IndexError"
    /\ tb.root # NULL /\ tb.end_event_obj /\ tb.events.items # <<>>

(* ------------------- Element specification (one parent) ----------------- *)

Pool   == {1, 2, 3, 4}  \* Element objects constructed before the run
Self   == 1
Kids   == Pool \ {Self}

MaxSeq == 2             \* length of a replacement sequence

\* a replacement sequence of n Elements
ReplSeq(n) == [i \in 1..n |-> 1 + i]
ReplSeqs   == {ReplSeq(n) : n \in 0..MaxSeq}

\* arguments of extend: sequences of Elements and other objects
ExtendSeqs == UNION {[1..n -> {2, NotAnElement}] : n \in 0..MaxSeq}

Indexes == (0 - (MaxKids + 1))..(MaxKids + 1)
SliceBounds == {SliceNone} \cup {SliceInt(k) : k \in Indexes}
Steps == {SliceNone} \cup {SliceInt(k) : k \in {-2, -1, 0, 2}}
Slices == [start : SliceBounds, stop : SliceBounds, step : Steps]

InitEl ==
    /\ elems = [i \in 1..Cardinality(Pool) |-> create_new_element("a")]
    /\ tb = treebuilder_new
    /\ ret = NoCall
    /\ ndata = 0
    /\ dicts = <<>>
    /\ memo = NoMemo
    /\ xp = xmlparser_new
    /\ it = NoIter

Room(self, n) == element_length(elems, self) + n <= MaxKids

\* the child sequence stays within MaxKids after elem[sl] = seq
RoomSlice(self, sl, seq) ==
    IF slice_step(sl) = 0 THEN TRUE
    ELSE Room(self, Len(seq)
                    - PySlice_GetIndicesEx(sl, element_length(elems, self)).slicelen)

\* the caller takes the value or the exception of the last call; the next
\* call is made after that
take_result ==
    /\ ret # NoCall
    /\ ret' = NoCall
    /\ UNCHANGED <<elems, tb, ndata, dicts, memo, xp, it>>

Idle == ret = NoCall

NextEl ==
    \/ take_result
    \/ Idle /\ Room(Self, 1) /\ \E e \in Kids \cup {NotAnElement} :
          element_append(Self, e)
    \/ Idle /\ \E seq \in ExtendSeqs :
          Room(Self, Len(seq)) /\ element_extend(Self, seq)
    \/ Idle /\ Room(Self, 1) /\ \E i \in Indexes, e \in Kids :
          element_insert(Self, i, e)
    \/ Idle /\ \E e \in Kids : element_remove(Self, e)
    \/ Idle /\ \E i \in Indexes, e \in Kids \cup {NULL} :
          element_setitem(Self, i, e)
    \/ Idle /\ \E sl \in Slices, seq \in ReplSeqs :
          RoomSlice(Self, sl, seq) /\ element_ass_subscr(Self, sl, seq)

SpecEl == InitEl /\ [][NextEl]_vars

\* the Element run for slice deletion: children are appended and slices of
\* them deleted
NextDl ==
    \/ take_result
    \/ Idle /\ Room(Self, 1) /\ \E e \in Kids : element_append(Self, e)
    \/ Idle /\ \E sl \in Slices : element_ass_subscr_delete(Self, sl)

SpecDl == InitEl /\ [][NextDl]_vars

(* ---- Element specification (several parents, callers respect ownership) - *)

MaxOwnElems == 4        \* Element objects in one run, SubElement included
MaxOwnKids  == 3        \* children of one Element in these runs

\* number of slots, over all child sequences, that hold e
Occ(els, e) ==
    Cardinality({pi \in UNION {{<<p, i>> : i \in DOMAIN Children(els, p)} :
                                    p \in Refs(els)} :
                    Children(els, pi[1])[pi[2]] = e})

Range(f) == {f[i] : i \in DOMAIN f}

\* the elements reachable from the members of S in at most n child steps
RECURSIVE Below(_, _, _)
Below(els, S, n) ==
    IF n = 0 THEN S
    ELSE Below(els, S \cup UNION {Range(Children(els, p)) : p \in S}, n - 1)

Descendants(els, e) == Below(els, Range(Children(els, e)), Len(els))

TreeShaped(els) ==
    \A e \in Refs(els) : Occ(els, e) <= 1 /\ e \notin Descendants(els, e)

\* e is in no child sequence and is neither self nor an ancestor of self
Unowned(self, e) ==
    /\ Occ(elems, e) = 0
    /\ e # self
    /\ self \notin Descendants(elems, e)

UnownedSeq(self, seq) ==
    /\ \A i \in DOMAIN seq : Unowned(self, seq[i])
    /\ \A i, j \in DOMAIN seq : seq[i] = seq[j] => i = j

OwnIndexes == -1..1
OwnBounds  == {SliceNone, SliceInt(0), SliceInt(2)}
OwnSteps   == {SliceNone, SliceInt(2)}
OwnSlices  == [start : OwnBounds, stop : OwnBounds, step : OwnSteps]
OwnSeqs    == UNION {[1..k -> Refs(elems)] : k \in 0..MaxSeq}

InitOwn ==
    /\ elems = [i \in 1..2 |-> create_new_element("a")]
    /\ tb = treebuilder_new
    /\ ret = NoCall
    /\ ndata = 0
    /\ dicts = <<>>
    /\ memo = NoMemo
    /\ xp = xmlparser_new
    /\ it = NoIter

RoomOwn(self, n) == element_length(elems, self) + n <= MaxOwnKids

RoomOwnSlice(self, sl, seq) ==
    RoomOwn(self, Len(seq)
                  - PySlice_GetIndicesEx(sl, element_length(elems, self)).slicelen)

NextOwn ==
    \/ take_result
    \/ Idle /\ Len(elems) < MaxOwnElems /\ \E p \in Refs(elems) :
          RoomOwn(p, 1) /\ subelement(p, "a")
    \/ Idle /\ \E self \in Refs(elems), e \in Refs(elems) :
          Unowned(self, e) /\ RoomOwn(self, 1) /\ element_append(self, e)
    \/ Idle /\ \E self \in Refs(elems), seq \in OwnSeqs :
          UnownedSeq(self, seq) /\ RoomOwn(self, Len(seq)) /\ element_extend(self, seq)
    \/ Idle /\ \E self \in Refs(elems), i \in OwnIndexes, e \in Refs(elems) :
          Unowned(self, e) /\ RoomOwn(self, 1) /\ element_insert(self, i, e)
    \/ Idle /\ \E self \in Refs(elems), e \in Refs(elems) : element_remove(self, e)
    \/ Idle /\ \E self \in Refs(elems), i \in OwnIndexes, e \in Refs(elems) \cup {NULL} :
          (IF e = NULL THEN TRUE ELSE Unowned(self, e)) /\ element_setitem(self, i, e)
    \/ Idle /\ \E self \in Refs(elems), sl \in OwnSlices, seq \in OwnSeqs :
          /\ UnownedSeq(self, seq)
          /\ RoomOwnSlice(self, sl, seq)
          /\ element_ass_subscr(self, sl, seq)

SpecOwn == InitOwn /\ [][NextOwn]_vars

(* ===================== properties of the Element ======================== *)

\* C6 -- ownership is tree-shaped: no Element occurs in two child sequences
\* or twice in one, and no Element is its own descendant.
C6_TreeShaped == TreeShaped(elems)

\* list semantics of a step-1 slice: bounds normalised into 0..n, stop >= start
list_lo(sl, n) ==
    IF sl.start.none THEN 0
    ELSE LET v == IF sl.start.i < 0 THEN sl.start.i + n ELSE sl.start.i
         IN  IF v < 0 THEN 0 ELSE IF v > n THEN n ELSE v

list_hi(sl, n) ==
    LET h == IF sl.stop.none THEN n
             ELSE LET v == IF sl.stop.i < 0 THEN sl.stop.i + n ELSE sl.stop.i
                  IN  IF v < 0 THEN 0 ELSE IF v > n THEN n ELSE v
    IN  IF h < list_lo(sl, n) THEN list_lo(sl, n) ELSE h

\* C7 -- slice assignment with step 1 succeeds for a replacement of any
\* length and gives old[:start] + seq + old[max(start, stop):].
C7_SliceAssign ==
    [][ (ret'.op = "setslice" /\ slice_step(ret'.arg.slice) = 1) =>
          LET old == Children(elems, ret'.arg.self)
              n   == Len(old)
              sl  == ret'.arg.slice
          IN  /\ ret'.err = "none"
              /\ Children(elems', ret'.arg.self) =
                    SubSeq(old, 1, list_lo(sl, n)) \o ret'.arg.seq
                       \o SubSeq(old, list_hi(sl, n) + 1, n) ]_vars

\* the positions an extended slice selects, by the sequence-slice rules
slice_positions(sl, n) ==
    LET ix == PySlice_GetIndicesEx(sl, n)
    IN  {k \in 0..(n - 1) :
            IF ix.step > 0
            THEN k >= ix.start /\ k < ix.stop /\ (k - ix.start) % ix.step = 0
            ELSE k <= ix.start /\ k > ix.stop /\ (ix.start - k) % (0 - ix.step) = 0}

\* C8 -- atomic failure: an extended slice assignment (step other than 1)
\* whose replacement has another length than the slice raises the
\* length-mismatch error and leaves the child sequence as it was.
C8_AtomicFailure ==
    [][ ( /\ ret'.op = "setslice"
          /\ slice_step(ret'.arg.slice) \notin {0, 1}
          /\ Len(ret'.arg.seq) #
                Cardinality(slice_positions(ret'.arg.slice,
                                Len(Children(elems, ret'.arg.self)))) ) =>
          /\ ret'.err = "ValueError"
          /\ Children(elems', ret'.arg.self) = Children(elems, ret'.arg.self) ]_vars

C8_Witness ==
    /\ ret.op = "setslice" /\ ret.err = "ValueError"
    /\ ret.arg.slice.step = SliceInt(2)
    /\ Len(ret.arg.seq) = 1
    /\ Len(Children(elems, Self)) = 4
    /\ ret.arg.slice.start = SliceInt(0) /\ ret.arg.slice.stop = SliceInt(4)

\* C9 -- insert(index, child) puts the child at position k, the index (plus
\* the length if negative) clamped to [0, length]; the children from k on
\* move up by one, the others stay.
C9_Insert ==
    [][ ret'.op = "insert" =>
          LET old == Children(elems, ret'.arg.self)
              n   == Len(old)
              i   == IF ret'.arg.index < 0 THEN ret'.arg.index + n ELSE ret'.arg.index
              k   == IF i < 0 THEN 0 ELSE IF i > n THEN n ELSE i
          IN  /\ ret'.err = "none"
              /\ Children(elems', ret'.arg.self) =
                    SubSeq(old, 1, k) \o <<ret'.arg.element>> \o SubSeq(old, k + 1, n) ]_vars

\* insert(-1, child) on a 3-child element: the child is at position 2 of 4
C9_Witness ==
    /\ ret.op = "insert" /\ ret.arg.index = -1
    /\ Len(Children(elems, Self)) = 4
    /\ Children(elems, Self)[3] = ret.arg.element
    /\ ret.arg.element \notin {Children(elems, Self)[i] : i \in {1, 2, 4}}

Matches(kids, element) ==
    {i \in DOMAIN kids : kids[i] = element \/ PyObject_RichCompareBool(kids[i], element)}

\* C10 -- remove(child) deletes exactly the first child identical or equal
\* to the argument and keeps the others in order; with no such child it
\* raises the not-found error and the child sequence is unchanged.
C10_Remove ==
    [][ ret'.op = "remove" =>
          LET old == Children(elems, ret'.arg.self)
              mt  == Matches(old, ret'.arg.element)
          IN  IF mt = {}
              THEN /\ ret'.err = "ValueError"
                   /\ Children(elems', ret'.arg.self) = old
              ELSE LET i == CHOOSE m \in mt : \A m2 \in mt : m <= m2
                   IN  /\ ret'.err = "none"
                       /\ Children(elems', ret'.arg.self) =
                             SubSeq(old, 1, i - 1) \o SubSeq(old, i + 1, Len(old)) ]_vars

\* remove(4) took out an equal but not identical child; the identical one stays
C10_Witness ==
    /\ ret.op = "remove" /\ ret.err = "none"
    /\ ret.arg.element = 4
    /\ Children(elems, Self) = <<2, 4>>

\* C11 -- append and extend accept only Elements: with a non-Element argument
\* (or item) they raise the type error, and no child sequence ever holds a
\* value that is not an Element.
C11_TypeChecked ==
    [][ /\ (ret'.op = "append" /\ ret'.arg.element = NotAnElement) =>
              (ret'.err = "TypeError" /\ elems' = elems)
        /\ (ret'.op = "extend"
              /\ \E i \in DOMAIN ret'.arg.seq : ret'.arg.seq[i] = NotAnElement) =>
              ret'.err = "TypeError"
        /\ ret'.op \in {"append", "extend"} =>
              \A e \in Refs(elems') : \A i \in DOMAIN Children(elems', e) :
                  Children(elems', e)[i] \in Refs(elems') ]_vars

\* extend([child, 5]) raised after the child before the non-Element was added
C11_Witness ==
    /\ ret.op = "extend" /\ ret.err = "TypeError"
    /\ ret.arg.seq = <<2, NotAnElement>>
    /\ Children(elems, Self) = <<2>>

(* ======================= Element attributes ============================= *)

\* An attribute dictionary is a set of <<key, value>> pairs with distinct
\* keys; a reference to it is its index in the heap `dicts`, Py_None is 0.
Keys    == {"k"}
Values  == {"v", "w"}
Default == "dflt"

PyDict_New(ds) == Append(ds, {})

PyDict_GetItem(d, key) == {p[2] : p \in {q \in d : q[1] = key}}

PyDict_SetItem(d, key, value) == {q \in d : q[1] # key} \cup {<<key, value>>}

\* the keys of a dictionary as a list (one fixed order)
RECURSIVE PyDict_Keys(_)
PyDict_Keys(d) ==
    IF d = {} THEN <<>>
    ELSE LET p == CHOOSE q \in d : TRUE
         IN  <<p[1]>> \o PyDict_Keys(d \ {p})

RECURSIVE PyDict_Items(_)
PyDict_Items(d) ==
    IF d = {} THEN <<>>
    ELSE LET p == CHOOSE q \in d : TRUE
         IN  <<p>> \o PyDict_Items(d \ {p})

is_empty_dict(ds, attrib) == attrib \in DOMAIN ds /\ ds[attrib] = {}

\* feed_new_element: the extra block is created only for a non-empty dict
feed_new_element(ds, tag, attrib) ==
    [tag   |-> tag,
     text  |-> JOIN_SET(PyNone, FALSE),
     tail  |-> JOIN_SET(PyNone, FALSE),
     extra |-> IF attrib # NULL /\ attrib # None /\ ~is_empty_dict(ds, attrib)
               THEN create_extra(attrib) ELSE NoExtra]

\* element_get_attrib (the extra block exists): a missing dictionary is created
element_get_attrib(els, ds, self) ==
    IF els[self].extra.attrib = None
    THEN [els |-> [els EXCEPT ![self].extra.attrib = Len(ds) + 1],
          ds  |-> PyDict_New(ds),
          res |-> Len(ds) + 1]
    ELSE [els |-> els, ds |-> ds, res |-> els[self].extra.attrib]

\* `if (!self->extra) create_extra(self, NULL); element_get_attrib(self)`
attrib_created(els, ds, self) ==
    element_get_attrib([els EXCEPT ![self].extra = element_resize(@)], ds, self)

attrib_for_read_created(els, ds, self) == attrib_created(els, ds, self)

\* the test of element_get, element_items and element_keys:
\* `!self->extra || self->extra->attrib == Py_None` gives no dictionary (None)
attrib_for_read(els, ds, self) ==
    [els |-> els, ds |-> ds,
     res |-> IF ~els[self].extra.valid THEN None ELSE els[self].extra.attrib]

AtArg(self, key, value) == [self |-> self, key |-> key, value |-> value]

element_get(self, key, default_value) ==
    LET a == attrib_for_read(elems, dicts, self)
        value == IF a.res = None THEN default_value
                 ELSE IF PyDict_GetItem(a.ds[a.res], key) = {} THEN default_value
                 ELSE CHOOSE v \in PyDict_GetItem(a.ds[a.res], key) : TRUE
    IN  /\ elems' = a.els
        /\ dicts' = a.ds
        /\ ret' = Ret("get", AtArg(self, key, default_value), NULL, PyStr(value), "none")
        /\ UNCHANGED <<tb, ndata, memo, xp, it>>

element_items(self) ==
    LET a == attrib_for_read(elems, dicts, self)
    IN  /\ elems' = a.els
        /\ dicts' = a.ds
        /\ ret' = Ret("items", AtArg(self, "", ""), NULL,
                      PyList(IF a.res = None THEN <<>> ELSE PyDict_Items(a.ds[a.res])),
                      "none")
        /\ UNCHANGED <<tb, ndata, memo, xp, it>>

element_keys(self) ==
    LET a == attrib_for_read(elems, dicts, self)
    IN  /\ elems' = a.els
        /\ dicts' = a.ds
        /\ ret' = Ret("keys", AtArg(self, "", ""), NULL,
                      PyList(IF a.res = None THEN <<>> ELSE PyDict_Keys(a.ds[a.res])),
                      "none")
        /\ UNCHANGED <<tb, ndata, memo, xp, it>>

element_set(self, key, value) ==
    LET a == attrib_created(elems, dicts, self)
    IN  /\ elems' = a.els
        /\ dicts' = [a.ds EXCEPT ![a.res] = PyDict_SetItem(@, key, value)]
        /\ ret' = Ret("set", AtArg(self, key, value), None, NullObj, "none")
        /\ UNCHANGED <<tb, ndata, memo, xp, it>>

\* element_getattro, name "attrib": the dictionary, created when missing
element_getattro_attrib(self) ==
    LET a == attrib_created(elems, dicts, self)
    IN  /\ elems' = a.els
        /\ dicts' = a.ds
        /\ ret' = Ret("getattr_attrib", AtArg(self, "", ""), a.res, NullObj, "none")
        /\ UNCHANGED <<tb, ndata, memo, xp, it>>

\* element_setattro, name "attrib": value is None or a dictionary
element_setattro_attrib(self, value) ==
    /\ elems' = [elems EXCEPT ![self].extra = [element_resize(@) EXCEPT !.attrib = value]]
    /\ ret' = Ret("setattr_attrib", AtArg(self, "", value), None, NullObj, "none")
    /\ UNCHANGED <<tb, ndata, dicts, memo, xp, it>>

\* Element(tag, attrib): the constructor copies the dictionary it is given
element_init(tag, attrib) ==
    LET ds == IF attrib.given THEN Append(dicts, attrib.d) ELSE dicts
    IN  /\ dicts' = ds
        /\ elems' = Append(elems,
                       feed_new_element(ds, tag,
                           IF attrib.given THEN Len(ds) ELSE NULL))
        /\ ret' = Ret("Element", AtArg(NULL, "", ""), Len(elems) + 1, NullObj, "none")
        /\ UNCHANGED <<tb, ndata, memo, xp, it>>

\* copy(): a new Element made by create_new_element from the tag and the
\* attrib of self, then given the text, the tail and the children of self
copy_of(els, ds, self) ==
    LET e == feed_new_element(ds, els[self].tag,
                 IF els[self].extra.valid THEN els[self].extra.attrib ELSE None)
    IN  [e EXCEPT !.text = els[self].text,
                  !.tail = els[self].tail,
                  !.extra = IF els[self].extra.valid
                            THEN [element_resize(@) EXCEPT
                                     !.children = els[self].extra.children]
                            ELSE @]

element_copy(self) ==
    /\ elems' = Append(elems, copy_of(elems, dicts, self))
    /\ ret' = Ret("copy", AtArg(self, "", ""), Len(elems) + 1, NullObj, "none")
    /\ UNCHANGED <<tb, ndata, dicts, memo, xp, it>>

(* ------------------- specification of the attributes -------------------- *)

MaxAtElems == 3         \* Element objects in one run
MaxDicts   == 3         \* dictionaries in one run

\* the dictionaries a caller passes to Element(tag, attrib)
NoAttrib  == [given |-> FALSE, d |-> {}]
Attrib(d) == [given |-> TRUE, d |-> d]
AttribArgs == {NoAttrib, Attrib({}), Attrib({<<"k", "v">>})}

InitAt ==
    /\ elems = <<>>
    /\ tb = treebuilder_new
    /\ ret = NoCall
    /\ ndata = 0
    /\ dicts = <<>>
    /\ memo = NoMemo
    /\ xp = xmlparser_new
    /\ it = NoIter

DictRoom == Len(dicts) < MaxDicts

NextAt ==
    \/ take_result
    \/ Idle /\ Len(elems) < MaxAtElems /\ \E a \in AttribArgs :
          (~a.given \/ DictRoom) /\ element_init("a", a)
    \/ Idle /\ \E self \in Refs(elems), key \in Keys : element_get(self, key, Default)
    \/ Idle /\ \E self \in Refs(elems) : element_items(self)
    \/ Idle /\ \E self \in Refs(elems) : element_keys(self)
    \/ Idle /\ DictRoom /\ \E self \in Refs(elems), key \in Keys, value \in Values :
          element_set(self, key, value)
    \/ Idle /\ DictRoom /\ \E self \in Refs(elems) : element_getattro_attrib(self)
    \/ Idle /\ \E self \in Refs(elems), value \in {None} \cup DOMAIN dicts :
          element_setattro_attrib(self, value)
    \/ Idle /\ Len(elems) < MaxAtElems /\ \E self \in Refs(elems) : element_copy(self)

SpecAt == InitAt /\ [][NextAt]_vars

(* ================== properties of the attributes ======================== *)

\* the element has an attribute dictionary
HasAttrStorage(els, e) == els[e].extra.valid /\ els[e].extra.attrib # None

\* C12 -- attribute storage is materialised only by writes: without storage
\* get returns the default and items/keys return empty, every read-only
\* access (get, items, keys, reading the attribute mapping) leaves the
\* storage absent, and only set or assigning the mapping allocates it.
C12_ReadOnly ==
    [][ /\ (ret'.op \in {"get", "items", "keys", "getattr_attrib"}
              /\ ~HasAttrStorage(elems, ret'.arg.self)) =>
             /\ ~HasAttrStorage(elems', ret'.arg.self)
             /\ ret'.op = "get" => ret'.obj = PyStr(ret'.arg.value)
             /\ ret'.op \in {"items", "keys"} => ret'.obj = PyList(<<>>)
        /\ \A e \in Refs(elems) :
              (~HasAttrStorage(elems, e) /\ HasAttrStorage(elems', e)) =>
                  ret'.op \in {"set", "setattr_attrib"} ]_vars

\* C12 as amended -- get, items and keys change nothing and, without
\* storage, return the default or the empty list; the storage of an element
\* is allocated only by set, by assigning the mapping or by reading the
\* mapping, each on that element.
C12_ReadsAmended ==
    [][ /\ ret'.op \in {"get", "items", "keys"} =>
             /\ elems' = elems /\ dicts' = dicts
             /\ ~HasAttrStorage(elems, ret'.arg.self) =>
                   /\ ret'.op = "get" => ret'.obj = PyStr(ret'.arg.value)
                   /\ ret'.op \in {"items", "keys"} => ret'.obj = PyList(<<>>)
        /\ \A e \in Refs(elems) :
              (~HasAttrStorage(elems, e) /\ HasAttrStorage(elems', e)) =>
                  /\ ret'.op \in {"set", "setattr_attrib", "getattr_attrib"}
                  /\ ret'.arg.self = e ]_vars

\* get on an element that has an extra block but no dictionary: the default
C12_Witness ==
    /\ ret.op = "get" /\ ret.obj = PyStr(Default)
    /\ elems[ret.arg.self].extra.valid
    /\ ~HasAttrStorage(elems, ret.arg.self)

\* C15 -- copy() shares the attribute mapping: in every attribute state of
\* e, reading the mapping of e and of copy(e) gives the very same dictionary.
C15_CopySharesAttrib ==
    [][ ret'.op = "copy" =>
          LET r1 == attrib_created(elems', dicts', ret'.arg.self)
              r2 == attrib_created(r1.els, r1.ds, ret'.node)
          IN  r1.res = r2.res ]_vars

(* --------------- builder specification with text reads ------------------ *)

MaxDataRd  == 3         \* data() calls in one run
RdDataVals == {"hi", "there"}

NextRd ==
    \/ \E tag \in Tags : treebuilder_start(tag)
    \/ \E data \in RdDataVals : ndata < MaxDataRd /\ treebuilder_data(data)
    \/ \E tag \in Tags : treebuilder_end(tag)
    \/ \E self \in Refs(elems) : element_get_text(self)
    \/ \E self \in Refs(elems) : element_get_tail(self)

SpecRd == Init /\ [][NextRd]_vars

\* the fragments of a list put together from the last one backwards
RECURSIVE concat(_)
concat(l) ==
    IF l = <<>> THEN "" ELSE concat(SubSeq(l, 1, Len(l) - 1)) \o l[Len(l)]

\* what a read of the tagged pointer p must return and leave behind
ReadOnce(p, value, slot) ==
    IF JOIN_GET(p) /\ p.t = "list"
    THEN /\ value = PyStr(concat(p.v))
         /\ slot = [join |-> FALSE, t |-> "str", v |-> <<concat(p.v)>>]
    ELSE /\ value = [t |-> p.t, v |-> p.v]
         /\ slot = p

\* C14 -- the lazy join is done once and cached: the first read of a
\* fragmented text or tail returns the concatenation of the fragments in
\* order and leaves that one string, join mark cleared, in the element; a
\* read of an unmarked field returns what is stored and changes nothing.
C14_JoinOnce ==
    [][ /\ ret'.op = "get_text" =>
              /\ ReadOnce(elems[ret'.node].text, ret'.obj, elems'[ret'.node].text)
              /\ elems' = [elems EXCEPT ![ret'.node].text = elems'[ret'.node].text]
        /\ ret'.op = "get_tail" =>
              /\ ReadOnce(elems[ret'.node].tail, ret'.obj, elems'[ret'.node].tail)
              /\ elems' = [elems EXCEPT ![ret'.node].tail = elems'[ret'.node].tail] ]_vars

\* a text of two fragments has been read: the joined string is cached
C14_Witness ==
    /\ ret.op = "get_text" /\ ret.obj = PyStr("hithere")
    /\ elems[ret.node].text = [join |-> FALSE, t |-> "str", v |-> <<"hithere">>]
    /\ tb.data = NullObj

(* ================= text assignment, deepcopy, state ===================== *)

\* element_setattro, names "text" and "tail": the pointer is stored as given
element_setattro_text(self, value) ==
    /\ elems' = [elems EXCEPT ![self].text = JOIN_SET(value, FALSE)]
    /\ ret' = Ret("setattr_text", AtArg(self, "", value), None, NullObj, "none")
    /\ UNCHANGED <<tb, ndata, dicts, memo, xp, it>>

element_setattro_tail(self, value) ==
    /\ elems' = [elems EXCEPT ![self].tail = JOIN_SET(value, FALSE)]
    /\ ret' = Ret("setattr_tail", AtArg(self, "", value), None, NullObj, "none")
    /\ UNCHANGED <<tb, ndata, dicts, memo, xp, it>>

\* The memo dictionary maps the identity of a source object to its clone: a
\* set of <<kind, source, clone>> with kind "elem" or "dict".
memo_has(m, kind, src) == \E q \in m : q[1] = kind /\ q[2] = src

memo_get(m, kind, src) == (CHOOSE q \in m : q[1] = kind /\ q[2] = src)[3]

memo_set_none(m, kind, src, clone) == m

\* PyDict_SetItem(memo, id, element)
memo_set(m, kind, src, clone) ==
    {q \in m : ~(q[1] = kind /\ q[2] = src)} \cup {<<kind, src, clone>>}

\* deepcopy of a text object: None and str are returned as they are, a list
\* is copied item by item into an equal list
deepcopy_text(o) == o

\* deepcopy of an attrib object: None as it is; a dictionary through the memo
deepcopy_attrib(st, attrib) ==
    IF attrib = None THEN [st EXCEPT !.res = None]
    ELSE IF memo_has(st.memo, "dict", attrib)
    THEN [st EXCEPT !.res = memo_get(st.memo, "dict", attrib)]
    ELSE [st EXCEPT !.ds = Append(st.ds, st.ds[attrib]),
                    !.memo = memo_set(st.memo, "dict", attrib, Len(st.ds) + 1),
                    !.res = Len(st.ds) + 1]

RECURSIVE element_deepcopy(_, _)
RECURSIVE deepcopy(_, _)
RECURSIVE deepcopy_children(_, _, _)

deepcopy_shared(st, object) == [st EXCEPT !.res = object]

\* the helper deepcopy(object, memo) on an Element: copy.deepcopy returns the
\* memo entry when there is one, else calls object.__deepcopy__(memo) and
\* stores the result in the memo
deepcopy(st, object) ==
    IF memo_has(st.memo, "elem", object)
    THEN [st EXCEPT !.res = memo_get(st.memo, "elem", object)]
    ELSE LET r == element_deepcopy(st, object)
         IN  [r EXCEPT !.memo = memo_set(r.memo, "elem", object, r.res)]

\* the loop over the children of element_deepcopy; st.res collects the clones
deepcopy_children(st, kids, acc) ==
    IF kids = <<>> THEN [st EXCEPT !.res = acc]
    ELSE LET r == deepcopy(st, Head(kids))
         IN  deepcopy_children(r, Tail(kids), Append(acc, r.res))

\* element_deepcopy(self, memo) on the heap st = [els, ds, memo, res]
element_deepcopy(st, self) ==
    LET src == st.els[self]
        a   == IF src.extra.valid THEN deepcopy_attrib(st, src.extra.attrib)
               ELSE [st EXCEPT !.res = None]
        new == Len(st.els) + 1
        e0  == feed_new_element(a.ds, src.tag, a.res)
        e1  == [e0 EXCEPT
                  !.text = JOIN_SET(deepcopy_text(JOIN_OBJ(src.text)), JOIN_GET(src.text)),
                  !.tail = JOIN_SET(deepcopy_text(JOIN_OBJ(src.tail)), JOIN_GET(src.tail))]
        s1  == [a EXCEPT !.els = Append(a.els, e1)]
    IN  IF ~src.extra.valid
        THEN [s1 EXCEPT !.memo = memo_set(s1.memo, "elem", self, new), !.res = new]
        ELSE LET c == deepcopy_children(s1, src.extra.children, <<>>)
             IN  [c EXCEPT
                    !.els[new].extra = [element_resize(@) EXCEPT !.children = c.res],
                    !.memo = memo_set(c.memo, "elem", self, new),
                    !.res = new]

Heap(m) == [els |-> elems, ds |-> dicts, memo |-> m, res |-> NULL]

\* e.__deepcopy__(m) called with the memo m
element_deepcopy_call(self, m) ==
    LET r == element_deepcopy(Heap(m), self)
    IN  /\ elems' = r.els
        /\ dicts' = r.ds
        /\ memo' = r.memo
        /\ ret' = Ret("deepcopy", [self |-> self, memo |-> m], r.res, NullObj, "none")
        /\ UNCHANGED <<tb, ndata, xp, it>>

\* the helper called on an Element with the memo m (as for each child)
deepcopy_call(self, m) ==
    LET r == deepcopy(Heap(m), self)
    IN  /\ elems' = r.els
        /\ dicts' = r.ds
        /\ memo' = r.memo
        /\ ret' = Ret("copy.deepcopy", [self |-> self, memo |-> m], r.res, NullObj, "none")
        /\ UNCHANGED <<tb, ndata, xp, it>>

\* __getstate__: the instance dictionary; without attributes a new empty
\* dictionary stands for attrib
element_getstate(els, ds, self) ==
    LET noattrib == ~els[self].extra.valid \/ els[self].extra.attrib = None
    IN  [ds |-> IF noattrib THEN PyDict_New(ds) ELSE ds,
         state |-> [tag      |-> els[self].tag,
                    children |-> IF els[self].extra.valid
                                 THEN els[self].extra.children ELSE <<>>,
                    attrib   |-> IF noattrib THEN Len(ds) + 1
                                 ELSE els[self].extra.attrib,
                    text     |-> JOIN_OBJ(els[self].text),
                    tail     |-> JOIN_OBJ(els[self].tail)]]

\* the join mark element_setstate_from_attributes gives a restored text
setstate_join(text) == PyList_CheckExact(text)

\* element_setstate_from_attributes with tag, attrib, text, tail, children
element_setstate_from_attributes(e, state) ==
    [e EXCEPT !.tag = state.tag,
              !.text = JOIN_SET(state.text, setstate_join(state.text)),
              !.tail = JOIN_SET(state.tail, setstate_join(state.tail)),
              !.extra = [element_resize(@) EXCEPT !.children = state.children,
                                                  !.attrib = state.attrib]]

\* element_new: tag, text and tail None, no extra block
element_new ==
    [tag   |-> "",
     text  |-> JOIN_SET(PyNone, FALSE),
     tail  |-> JOIN_SET(PyNone, FALSE),
     extra |-> NoExtra]

\* state save and restore: a new Element (element_new) is given, by
\* __setstate__, the state that src.__getstate__() returned
element_setstate(src) ==
    LET g == element_getstate(elems, dicts, src)
    IN  /\ dicts' = g.ds
        /\ elems' = Append(elems, element_setstate_from_attributes(element_new, g.state))
        /\ ret' = Ret("setstate", [self |-> Len(elems) + 1, src |-> src],
                      None, NullObj, "none")
        /\ UNCHANGED <<tb, ndata, memo, xp, it>>

(* ------------- specification of text, copies and state ------------------ *)

MaxTxElems == 3         \* Element objects in one run
MaxTxDicts == 2         \* dictionaries in one run

TextVals == {PyStr("hi"), PyList(<<"hi", "there">>)}
TailVals == {PyList(<<"tail">>)}

TxRoom(els, ds) == Len(els) <= MaxTxElems /\ Len(ds) <= MaxTxDicts

InitTx ==
    /\ elems = <<create_new_element("a")>>
    /\ tb = treebuilder_new
    /\ ret = NoCall
    /\ ndata = 0
    /\ dicts = <<>>
    /\ memo = NoMemo
    /\ xp = xmlparser_new
    /\ it = NoIter

NextTx ==
    \/ take_result
    \/ Idle /\ \E self \in Refs(elems), value \in TextVals :
          element_setattro_text(self, value)
    \/ Idle /\ \E self \in Refs(elems), value \in TailVals :
          element_setattro_tail(self, value)
    \/ Idle /\ \E self \in Refs(elems) : element_get_text(self)
    \/ Idle /\ \E self \in Refs(elems) : element_get_tail(self)
    \/ Idle /\ Len(elems) < MaxTxElems /\ \E self \in Refs(elems) : element_copy(self)
    \/ Idle /\ \E self \in Refs(elems) :
          /\ LET r == element_deepcopy(Heap(NoMemo), self) IN TxRoom(r.els, r.ds)
          /\ element_deepcopy_call(self, NoMemo)
    \/ Idle /\ Len(elems) < MaxTxElems /\ \E src \in Refs(elems) :
          /\ Len(element_getstate(elems, dicts, src).ds) <= MaxTxDicts
          /\ element_setstate(src)

SpecTx == InitTx /\ [][NextTx]_vars

(* ---------------------- specification of deepcopy ------------------------ *)

MaxCpElems == 4         \* Element objects in one run
MaxCpDicts == 2         \* dictionaries in one run

CpAttribArgs == {NoAttrib, Attrib({<<"k", "v">>})}

CpRoom(els, ds) == Len(els) <= MaxCpElems /\ Len(ds) <= MaxCpDicts

NextCp ==
    \/ take_result
    \/ Idle /\ Len(elems) < 1 /\ \E a \in CpAttribArgs : element_init("a", a)
    \/ Idle /\ Len(elems) < MaxCpElems /\ \E parent \in Refs(elems) :
          subelement(parent, "a")
    \/ Idle /\ \E self \in Refs(elems) : element_setattro_text(self, PyStr("hi"))
    \/ Idle /\ \E self \in Refs(elems), m \in {memo, NoMemo} :
          /\ LET r == element_deepcopy(Heap(m), self) IN CpRoom(r.els, r.ds)
          /\ element_deepcopy_call(self, m)
    \/ Idle /\ \E self \in Refs(elems), m \in {memo, NoMemo} :
          /\ LET r == deepcopy(Heap(m), self) IN CpRoom(r.els, r.ds)
          /\ deepcopy_call(self, m)

SpecCp == InitAt /\ [][NextCp]_vars

(* ============ properties of text, deepcopy and state ==================== *)

\* C13 -- a text or tail assigned by the caller is never joined: every read
\* returns the assigned object itself and changes nothing, whatever copy,
\* deepcopy or state save and restore came between (here every text is None
\* or a value the caller assigned).
C13_NeverJoined ==
    [][ /\ ret'.op = "get_text" =>
              /\ ret'.obj \in TextVals \cup {PyNone}
              /\ ret'.obj = [t |-> elems[ret'.node].text.t, v |-> elems[ret'.node].text.v]
              /\ elems' = elems
        /\ ret'.op = "get_tail" =>
              /\ ret'.obj \in TailVals \cup {PyNone}
              /\ ret'.obj = [t |-> elems[ret'.node].tail.t, v |-> elems[ret'.node].tail.v]
              /\ elems' = elems ]_vars

\* the attributes of an element, as a dictionary value
AttrVal(els, ds, e) ==
    IF HasAttrStorage(els, e) THEN ds[els[e].extra.attrib] ELSE {}

\* the trees under a (heap els1, ds1) and under b (heap els2, ds2) have equal
\* tag, attributes, text and tail at every node, same shape and child order
RECURSIVE TreeEqual(_, _, _, _, _, _)
TreeEqual(els1, ds1, a, els2, ds2, b) ==
    /\ els1[a].tag = els2[b].tag
    /\ AttrVal(els1, ds1, a) = AttrVal(els2, ds2, b)
    /\ els1[a].text = els2[b].text
    /\ els1[a].tail = els2[b].tail
    /\ Len(Children(els1, a)) = Len(Children(els2, b))
    /\ \A i \in DOMAIN Children(els1, a) :
          TreeEqual(els1, ds1, Children(els1, a)[i], els2, ds2, Children(els2, b)[i])

\* the memo m has an entry for no element of the tree under e nor for one of
\* their dictionaries
FreshFor(m, els, e) ==
    \A n \in Range(iter(els, e)) :
        /\ ~memo_has(m, "elem", n)
        /\ ~memo_has(m, "dict", els[n].extra.attrib)

\* C16 -- deepcopy of a tree-shaped Element gives a tree with equal tag,
\* attributes, text and tail at every node, the same shape and child order,
\* of which no Element (and no dictionary) belongs to the source; the source
\* is unchanged.
C16_DeepcopyDisjoint ==
    [][ ( /\ ret'.op = "deepcopy"
          /\ FreshFor(ret'.arg.memo, elems, ret'.arg.self) ) =>
          /\ TreeEqual(elems, dicts, ret'.arg.self, elems', dicts', ret'.node)
          /\ \A n \in Range(iter(elems', ret'.node)) :
                /\ n \notin Refs(elems)
                /\ HasAttrStorage(elems', n) => elems'[n].extra.attrib \notin DOMAIN dicts
          /\ \A e \in Refs(elems) : elems'[e] = elems[e]
          /\ \A d \in DOMAIN dicts : dicts'[d] = dicts[d] ]_vars

\* the clone of a two-level tree with attributes and a text
C16_Witness ==
    /\ ret.op = "deepcopy" /\ ret.arg.memo = NoMemo
    /\ Len(Children(elems, ret.node)) = 1
    /\ HasAttrStorage(elems, ret.node)
    /\ elems[Children(elems, ret.node)[1]].text = JOIN_SET(PyStr("hi"), FALSE)
    /\ Children(elems, ret.node) # Children(elems, ret.arg.self)

\* C17 -- memoisation: deepcopy(memo) called on a source element that the
\* memo already maps (an earlier call with the same memo) returns that
\* identical clone.
C17_SameClone ==
    [][ ( /\ ret'.op = "deepcopy"
          /\ memo_has(ret'.arg.memo, "elem", ret'.arg.self) ) =>
          ret'.node = memo_get(ret'.arg.memo, "elem", ret'.arg.self) ]_vars

\* C17 as amended -- every deepcopy registers source -> clone in the memo;
\* the generic deep-copy helper returns the registered clone of a source the
\* memo maps and creates nothing, while the method called directly does not
\* consult the memo: it returns a new clone and registers that one.
C17_Registered ==
    [][ /\ ret'.op \in {"deepcopy", "copy.deepcopy"} =>
              /\ memo_has(memo', "elem", ret'.arg.self)
              /\ memo_get(memo', "elem", ret'.arg.self) = ret'.node
        /\ (ret'.op = "copy.deepcopy"
              /\ memo_has(ret'.arg.memo, "elem", ret'.arg.self)) =>
              /\ ret'.node = memo_get(ret'.arg.memo, "elem", ret'.arg.self)
              /\ elems' = elems
        /\ ret'.op = "deepcopy" => ret'.node \notin Refs(elems) ]_vars

\* the helper returned the clone an earlier call had registered
C17_Witness ==
    /\ ret.op = "copy.deepcopy"
    /\ memo_has(ret.arg.memo, "elem", ret.arg.self)
    /\ ret.node = memo_get(ret.arg.memo, "elem", ret.arg.self)
    /\ ret.node # ret.arg.self

(* ============================ XMLParser ================================= *)

\* Text is a sequence of characters here.  What the tokenizer hands to the
\* default handler is raw document text: an entity reference &name; that it
\* could not resolve itself, or other markup.
EntityRef(name) == <<"&">> \o name \o <<";">>

MsgCopyMax == 100       \* strncat(message, data_in, data_len < 100 ? data_len : 100)

LongName == [i \in 1..MsgCopyMax |-> "x"]

EntityNames == {<<"a">>, <<"b">>, <<"c", "d">>, LongName}

\* entity names the caller defines in parser.entity
DefinableNames == {<<"a">>, <<"b">>}

Reports == {EntityRef(n) : n \in EntityNames} \cup {<<"<", "!">>}

\* the error indicator of the interpreter: clear, or the exception set
NoError == [code |-> "none", message |-> <<>>, position |-> 0]

PyErr_Occurred_never(err) == FALSE

PyErr_Occurred(err) == err # NoError

\* expat_set_error(code, line, column, message): a ParseError with the
\* message, the code and the position
expat_set_error(code, position, message) ==
    [code |-> code, message |-> message, position |-> position]

\* strncat(message, data_in, n) on "undefined entity "
undefined_entity_message(data_in) ==
    <<"undefined entity ">> \o
        SubSeq(data_in, 1, IF Len(data_in) < MsgCopyMax THEN Len(data_in) ELSE MsgCopyMax)

\* expat_default_handler on the parser state st = [tb, err], for the text
\* data_in reported at `position`
expat_default_handler(entity, st, data_in, position) ==
    IF Len(data_in) < 2 \/ data_in[1] # "&" THEN st
    ELSE LET key   == SubSeq(data_in, 2, Len(data_in) - 1)
             value == PyDict_GetItem(entity, key)
         IN  IF value # {}
             THEN [st EXCEPT !.tb = treebuilder_handle_data(st.tb, CHOOSE v \in value : TRUE)]
             ELSE IF ~PyErr_Occurred(st.err)
             THEN [st EXCEPT !.err = expat_set_error("XML_ERROR_UNDEFINED_ENTITY",
                                         position, undefined_entity_message(data_in))]
             ELSE st

\* XML_Parse: the tokenizer makes its reports one after the other
RECURSIVE XML_Parse(_, _, _, _)
XML_Parse(entity, st, reports, position) ==
    IF reports = <<>> THEN st
    ELSE XML_Parse(entity,
                   expat_default_handler(entity, st, Head(reports), position),
                   Tail(reports), position + 1)

\* expat_parse: the call fails with the exception a handler has set
expat_parse(reports) ==
    LET st == XML_Parse(xp.entity, [tb |-> tb, err |-> NoError], reports, 1)
    IN  /\ tb' = st.tb
        /\ ret' = Ret("feed", [reports |-> reports, entity |-> xp.entity],
                      IF PyErr_Occurred(st.err) THEN NULL ELSE None,
                      st.err,
                      IF PyErr_Occurred(st.err) THEN "ParseError" ELSE "none")
        /\ ndata' = ndata + Len(reports)
        /\ UNCHANGED <<elems, dicts, memo, xp, it>>

xmlparser_feed(reports) == expat_parse(reports)

\* parser.entity[name] = value, by the caller
entity_setitem(name, value) ==
    /\ xp' = [xp EXCEPT !.entity = PyDict_SetItem(@, name, value)]
    /\ ret' = Ret("entity", [name |-> name, value |-> value], None, NullObj, "none")
    /\ UNCHANGED <<elems, tb, ndata, dicts, memo, it>>

(* --------------------- specification of the parser ---------------------- *)

MaxReports == 3         \* reports of the tokenizer in one run

ReportSeqs == UNION {[1..n -> Reports] : n \in 1..MaxReports}

\* the parser has seen the start tag of the root element
InitXp ==
    /\ elems = <<create_new_element("a")>>
    /\ tb = [treebuilder_new EXCEPT !.root = 1, !.this = 1, !.last = 1,
                                    !.index = 1, !.stack[1] = None]
    /\ ret = NoCall
    /\ ndata = 0
    /\ dicts = <<>>
    /\ memo = NoMemo
    /\ xp = xmlparser_new
    /\ it = NoIter

NextXp ==
    \/ take_result
    \/ Idle /\ \E name \in DefinableNames : entity_setitem(name, "hi")
    \/ Idle /\ \E reports \in ReportSeqs :
          ndata + Len(reports) <= MaxReports /\ xmlparser_feed(reports)

SpecXp == InitXp /\ [][NextXp]_vars

(* ===================== properties of the parser ========================= *)

\* the name in an entity reference &name;
RefName(data_in) == SubSeq(data_in, 2, Len(data_in) - 1)

\* the reports of a parse that are references to entities not in the map
Undefined(reports, entity) ==
    {i \in DOMAIN reports :
        /\ reports[i][1] = "&"
        /\ \A q \in entity : q[1] # RefName(reports[i])}

Contains(text, part) ==
    \E k \in 0..(Len(text) - Len(part)) : SubSeq(text, k + 1, k + Len(part)) = part

FirstChars(text, n) == SubSeq(text, 1, IF Len(text) < n THEN Len(text) ELSE n)

\* C18 -- undefined entity, first error wins: a parse that meets references
\* to entities not in the entity map raises the undefined-entity error of
\* the first of them, with the entity name in the message; a parse without
\* them raises none.
C18_FirstUndefined ==
    [][ ret'.op = "feed" =>
          LET u == Undefined(ret'.arg.reports, ret'.arg.entity)
          IN  IF u = {} THEN ret'.err = "none"
              ELSE LET f == CHOOSE i \in u : \A j \in u : i <= j
                   IN  /\ ret'.err = "ParseError"
                       /\ ret'.obj.code = "XML_ERROR_UNDEFINED_ENTITY"
                       /\ ret'.obj.position = f
                       /\ Contains(ret'.obj.message, RefName(ret'.arg.reports[f])) ]_vars

\* C18 as amended -- as C18, but the message carries the reference text cut
\* to its first MsgCopyMax characters: the name whole when it is shorter
\* than MsgCopyMax, else its first MsgCopyMax - 1 characters.
C18_FirstUndefinedCut ==
    [][ ret'.op = "feed" =>
          LET u == Undefined(ret'.arg.reports, ret'.arg.entity)
          IN  IF u = {} THEN ret'.err = "none"
              ELSE LET f == CHOOSE i \in u : \A j \in u : i <= j
                   IN  /\ ret'.err = "ParseError"
                       /\ ret'.obj.code = "XML_ERROR_UNDEFINED_ENTITY"
                       /\ ret'.obj.position = f
                       /\ Contains(ret'.obj.message,
                             FirstChars(RefName(ret'.arg.reports[f]), MsgCopyMax - 1)) ]_vars

\* a defined entity, then two different undefined ones: the first is reported
C18_Witness ==
    /\ ret.op = "feed" /\ ret.err = "ParseError"
    /\ ret.arg.reports = <<EntityRef(<<"a">>), EntityRef(<<"c", "d">>), EntityRef(<<"b">>)>>
    /\ ret.obj.position = 2
    /\ ret.obj.message = <<"undefined entity ", "&", "c", "d", ";">>
    /\ tb.data = PyStr("hi")

(* ============== the tokenizer callbacks and the event queue ============== *)

\* treebuilder_handle_namespace(self, start, prefix, uri)
treebuilder_handle_namespace(t, start, prefix, uri) ==
    IF t.events.null THEN t
    ELSE IF start
    THEN IF ~t.start_ns_event_obj THEN t
         ELSE [t EXCEPT !.events = append_event(t, TRUE, "start-ns", <<prefix, uri>>)]
    ELSE IF ~t.end_ns_event_obj THEN t
         ELSE [t EXCEPT !.events = append_event(t, TRUE, "end-ns", None)]

\* The tokenizer reads a well-formed document: a namespace declaration is
\* reported before the start of the element that carries it and its end
\* after the end of that element; the namespace handlers are called only
\* when they have been set.
BetweenTokens ==
    ~xp.parser.pending_ns /\ ~xp.parser.closing /\ ~xp.parser.stopped

CanStart ==
    /\ ~xp.parser.closing /\ ~xp.parser.stopped
    /\ xp.parser.open # <<>> \/ ~xp.parser.rooted
    /\ Len(elems) < MaxElems /\ Len(xp.parser.open) < MaxElems

expat_start_ns_handler(prefix, uri) ==
    /\ BetweenTokens /\ CanStart
    /\ xp' = [xp EXCEPT !.parser.pending_ns = TRUE]
    /\ tb' = IF xp.parser.ns_handlers
             THEN treebuilder_handle_namespace(tb, TRUE, prefix, uri)
             ELSE tb
    /\ ret' = Ret("start_ns", [prefix |-> prefix, uri |-> uri], None, NullObj, "none")
    /\ UNCHANGED <<elems, ndata, dicts, memo, it>>

expat_start_handler(tag) ==
    LET read(x) == [x EXCEPT !.parser.open = Append(@, xp.parser.pending_ns),
                             !.parser.pending_ns = FALSE,
                             !.parser.rooted = TRUE]
    IN  /\ CanStart
        /\ IF TreeBuilder_CheckExact(xp.target)
           THEN /\ treebuilder_handle_start(tag)
                /\ xp' = read(xp)
           ELSE /\ xp' = read(call_target(xp, "start", <<tag>>))
                /\ ret' = Ret("start", tag, NULL, NullObj, "none")
                /\ UNCHANGED <<elems, tb>>
        /\ UNCHANGED <<ndata, dicts, memo, it>>

expat_data_handler(data) ==
    /\ BetweenTokens
    /\ xp.parser.open # <<>>
    /\ ndata' = ndata + 1
    /\ IF TreeBuilder_CheckExact(xp.target)
       THEN /\ tb' = treebuilder_handle_data(tb, data)
            /\ xp' = xp
       ELSE /\ xp' = call_target(xp, "data", <<data>>)
            /\ tb' = tb
    /\ ret' = Ret("data", data, None, NullObj, "none")
    /\ UNCHANGED <<elems, dicts, memo, it>>

expat_end_handler ==
    LET read(x) == [x EXCEPT !.parser.open = SubSeq(@, 1, Len(@) - 1),
                             !.parser.closing = xp.parser.open[Len(xp.parser.open)]]
    IN  /\ BetweenTokens
        /\ xp.parser.open # <<>>
        /\ IF TreeBuilder_CheckExact(xp.target)
           THEN /\ treebuilder_handle_end("")
                /\ xp' = read(xp)
           ELSE /\ xp' = read(call_target(xp, "end", <<"a">>))
                /\ ret' = Ret("end", "a", NULL, NullObj, "none")
                /\ UNCHANGED <<elems, tb>>
        /\ UNCHANGED <<ndata, dicts, memo, it>>

\* the comment, processing-instruction and doctype handlers look at the
\* handle only
expat_comment_handler(comment) ==
    /\ BetweenTokens
    /\ xp' = call_target(xp, "comment", <<comment>>)
    /\ ret' = Ret("comment", comment, None, NullObj, "none")
    /\ UNCHANGED <<elems, tb, ndata, dicts, memo, it>>

expat_pi_handler(target, data) ==
    /\ BetweenTokens
    /\ xp' = call_target(xp, "pi", <<target, data>>)
    /\ ret' = Ret("pi", target, None, NullObj, "none")
    /\ UNCHANGED <<elems, tb, ndata, dicts, memo, it>>

\* a plain XMLParser has a doctype method of its own, which is not called
expat_start_doctype_handler(doctype_name, pubid, sysid) ==
    /\ BetweenTokens
    /\ ~xp.parser.rooted
    /\ xp' = call_target(xp, "doctype", <<doctype_name, pubid, sysid>>)
    /\ ret' = Ret("doctype", doctype_name, None, NullObj, "none")
    /\ UNCHANGED <<elems, tb, ndata, dicts, memo, it>>

\* XML_Parse(parser, "", 0, 1) succeeds when the document is complete
document_complete(x) ==
    x.parser.rooted /\ x.parser.open = <<>> /\ ~x.parser.stopped

\* parser.close(): the final parse, then the result of the target's close
\* (for a custom target some object that is not an Element of the model)
xmlparser_close ==
    /\ ~xp.parser.pending_ns /\ ~xp.parser.closing
    /\ IF ~document_complete(xp)
       THEN /\ xp' = [xp EXCEPT !.parser.stopped = TRUE]
            /\ ret' = Ret("parser_close", "", NULL, NullObj, "ParseError")
       ELSE IF TreeBuilder_CheckExact(xp.target)
       THEN /\ xp' = [xp EXCEPT !.parser.stopped = TRUE]
            /\ ret' = Ret("parser_close", "", treebuilder_done, NullObj, "none")
       ELSE IF handle(xp, "close")
       THEN /\ xp' = [PyObject_CallFunction(xp, "close", <<>>)
                         EXCEPT !.parser.stopped = TRUE]
            /\ ret' = Ret("parser_close", "", NotAnElement, NullObj, "none")
       ELSE /\ xp' = [xp EXCEPT !.parser.stopped = TRUE]
            /\ ret' = Ret("parser_close", "", None, NullObj, "none")
    /\ UNCHANGED <<elems, tb, ndata, dicts, memo, it>>

expat_end_ns_handler ==
    /\ xp.parser.closing
    /\ xp' = [xp EXCEPT !.parser.closing = FALSE]
    /\ tb' = IF xp.parser.ns_handlers
             THEN treebuilder_handle_namespace(tb, FALSE, "", "")
             ELSE tb
    /\ ret' = Ret("end_ns", "", None, NullObj, "none")
    /\ UNCHANGED <<elems, ndata, dicts, memo, it>>

(* ---------------- specification of the event recording ------------------ *)

\* the tuples of event names given to _setevents
NsEventSets ==
    {NoEventSet} \cup
    {EventSet(a \o b \o c \o d) :
        a \in {<<>>, <<"start">>}, b \in {<<>>, <<"end">>},
        c \in {<<>>, <<"start-ns">>}, d \in {<<>>, <<"end-ns">>}}

NextNs ==
    \/ BetweenTokens /\ \E event_set \in NsEventSets : xmlparser_setevents(event_set)
    \/ expat_start_ns_handler("p", "uri")
    \/ \E tag \in Tags : expat_start_handler(tag)
    \/ expat_end_handler
    \/ expat_end_ns_handler

SpecNs == Init /\ [][NextNs]_vars

(* ================= properties of the event recording ===================== *)

EventKinds == {"start", "end", "start-ns", "end-ns"}

\* the kinds _setevents(queue, kinds) asks for; no kinds means end only
Selected(event_set, kind) ==
    IF event_set.none THEN kind = "end"
    ELSE \E i \in DOMAIN event_set.names : event_set.names[i] = kind

\* the marker object the builder holds for a kind
Marked(t, kind) ==
    IF kind = "start" THEN t.start_event_obj
    ELSE IF kind = "end" THEN t.end_event_obj
    ELSE IF kind = "start-ns" THEN t.start_ns_event_obj
    ELSE t.end_ns_event_obj

Entry(kind, payload) == [kind |-> kind, payload |-> payload]

\* the queue after a callback of the given kind
Recorded(t, kind, payload) ==
    IF Marked(t, kind) THEN Append(t.events.items, Entry(kind, payload))
    ELSE t.events.items

\* C19 -- event recording selects exactly the chosen kinds: _setevents
\* installs an empty queue and marks exactly the kinds given (end only when
\* none are given), replacing any earlier selection; only _setevents changes
\* the selection; a callback appends one (marker, payload) entry if and only
\* if its kind is selected: the Element for start and end, (prefix, uri)
\* for start-ns, None for end-ns.
C19_Selection ==
    [][ /\ (ret'.op = "setevents" /\ ret'.err = "none") =>
              /\ \A k \in EventKinds : Marked(tb', k) <=> Selected(ret'.arg, k)
              /\ tb'.events = [null |-> FALSE, items |-> <<>>]
        /\ ret'.op # "setevents" =>
              \A k \in EventKinds : Marked(tb', k) <=> Marked(tb, k)
        /\ (ret'.op = "start" /\ ret'.err = "none") =>
              tb'.events.items = Recorded(tb, "start", Len(elems'))
        /\ (ret'.op = "end" /\ ret'.err = "none") =>
              tb'.events.items = Recorded(tb, "end", tb.this)
        /\ ret'.op = "start_ns" =>
              tb'.events.items =
                  Recorded(tb, "start-ns", <<ret'.arg.prefix, ret'.arg.uri>>)
        /\ ret'.op = "end_ns" =>
              tb'.events.items = Recorded(tb, "end-ns", None) ]_vars

\* with the selection (start-ns, end) an element with a namespace declaration
\* was read: its start-ns and its end are in the queue, nothing else
C19_Witness ==
    /\ ret.op = "end_ns"
    /\ tb.start_ns_event_obj /\ tb.end_event_obj
    /\ ~tb.start_event_obj /\ ~tb.end_ns_event_obj
    /\ tb.events.items = <<Entry("start-ns", <<"p", "uri">>), Entry("end", 1)>>

\* the positions of the start or end entries of element e in the queue q
EvIndex(q, kind, e) ==
    {i \in DOMAIN q : q[i].kind = kind /\ q[i].payload = e}

\* C20 -- events are queued in document order: a callback appends at the end
\* and nothing is removed or reordered; the start entry of an element
\* precedes its end entry; the end entries of its descendants precede its
\* own; the start-ns entry of a declaration directly precedes the start entry
\* of the declaring element and the end-ns entry directly follows that
\* element's end entry.
C20_DocumentOrder ==
    [][ /\ ret'.op # "setevents" =>
              \/ tb'.events.items = tb.events.items
              \/ /\ Len(tb'.events.items) = Len(tb.events.items) + 1
                 /\ SubSeq(tb'.events.items, 1, Len(tb.events.items)) = tb.events.items
        /\ LET q == tb'.events.items
           IN  \A e \in Refs(elems') :
                 /\ \A i \in EvIndex(q, "start", e), j \in EvIndex(q, "end", e) : i < j
                 /\ \A d \in Descendants(elems', e) :
                       \A i \in EvIndex(q, "end", d), j \in EvIndex(q, "end", e) : i < j
        /\ ( /\ ret'.op = "start" /\ xp.parser.pending_ns
             /\ tb.start_ns_event_obj /\ tb.start_event_obj ) =>
              LET q == tb'.events.items
              IN  /\ Len(q) >= 2
                  /\ q[Len(q) - 1].kind = "start-ns"
                  /\ q[Len(q)] = Entry("start", Len(elems'))
        /\ ( /\ ret'.op = "end_ns"
             /\ tb.end_event_obj /\ tb.end_ns_event_obj ) =>
              LET q == tb'.events.items
              IN  /\ Len(q) >= 2
                  /\ q[Len(q) - 1] = Entry("end", tb.last)
                  /\ q[Len(q)] = Entry("end-ns", None) ]_vars

\* all four kinds selected, a root with a declaration and one child read
C20_Witness ==
    /\ ret.op = "end_ns"
    /\ tb.events.items =
          <<Entry("start-ns", <<"p", "uri">>), Entry("start", 1), Entry("start", 2),
            Entry("end", 2), Entry("end", 1), Entry("end-ns", None)>>

(* ================= properties of usage errors and close ================== *)

\* C21 -- a usage error in _setevents does not corrupt state: a call that
\* raises (an unknown event name) leaves the queue in use, the enabled event
\* kinds and the tree exactly as they were before the call.
C21_UsageErrorKeepsState ==
    [][ (ret'.op = "setevents" /\ ret'.err # "none") =>
          /\ tb'.events = tb.events
          /\ \A k \in EventKinds : Marked(tb', k) <=> Marked(tb, k)
          /\ elems' = elems ]_vars

\* C23 -- data before the first start is a silent no-op: nothing is
\* buffered, no error is raised and the builder and the tree are as before,
\* so the text can reach no element created later.
C23_DataBeforeStart ==
    [][ (ret'.op = "data" /\ tb.root = NULL) =>
          /\ ret'.err = "none"
          /\ tb' = tb /\ tb'.data = NullObj
          /\ elems' = elems ]_vars

\* data, then start, data, end: only the data given after the start is the
\* element's text
C23_Witness ==
    /\ ndata = 2 /\ Len(elems) = 1 /\ tb.index = 0 /\ ret.op = "end"
    /\ joined_value(elems[1].text) \in {PyStr(d) : d \in DataVals}

\* C24 -- close() returns the root, the first element ever started, or None
\* if no start ever succeeded, whatever the stack depth or the pending data;
\* it changes neither the builder nor the tree, so repeated calls return the
\* same element.
C24_CloseReturnsRoot ==
    [][ ret'.op = "close" =>
          /\ ret'.err = "none"
          /\ ret'.node = IF Len(elems) = 0 THEN None ELSE 1
          /\ tb' = tb /\ elems' = elems ]_vars

\* close with two elements open and data pending returns the first element
C24_Witness ==
    /\ ret.op = "close" /\ ret.node = 1
    /\ tb.index = 2 /\ tb.this = 2 /\ tb.data # NullObj

\* the elements above e in the tree, from the root down to the parent of e
RECURSIVE AncestorChain(_, _)
AncestorChain(els, e) ==
    LET ps == {p \in Refs(els) :
                 \E i \in DOMAIN Children(els, p) : Children(els, p)[i] = e}
    IN  IF ps = {} THEN <<>>
        ELSE LET p == CHOOSE q \in ps : TRUE
             IN  Append(AncestorChain(els, p), p)

StackShape ==
    /\ (tb.this = None) <=> (tb.index = 0)
    /\ tb.index > 0 =>
          SubSeq(tb.stack, 1, tb.index) = <<None>> \o AncestorChain(elems, tb.this)

\* C29 -- builder stack invariant: the depth goes up by one at a successful
\* start, down by one at a successful end and is unchanged by data and by
\* failed calls, so it counts the elements started and not yet ended;
\* `this` is None exactly at depth 0; the stack holds None followed by the
\* open ancestors of `this`; after a successful start or end no data is
\* pending.
C29_StackInvariant ==
    [][ /\ StackShape'
        /\ (ret'.op = "start" /\ ret'.err = "none") =>
              tb'.index = tb.index + 1 /\ tb'.data = NullObj
        /\ (ret'.op = "end" /\ ret'.err = "none") =>
              tb'.index = tb.index - 1 /\ tb'.data = NullObj
        /\ (ret'.op = "data" \/ ret'.err # "none") =>
              tb'.index = tb.index ]_vars

\* three elements nested: the stack holds None, 1, 2 under current 3
C29_Witness ==
    /\ tb.index = 3 /\ tb.this = 3
    /\ SubSeq(tb.stack, 1, 3) = <<None, 1, 2>>
    /\ Children(elems, 1) = <<2>> /\ Children(elems, 2) = <<3>>

FailedCall == ret'.op \in {"start", "end"} /\ ret'.err # "none"

\* C30 -- failed builder calls change nothing: after a start that fails with
\* the multiple-roots error or an end that fails with the empty-stack error
\* the builder and the tree are exactly as before the call.
C30_FailedChangeNothing ==
    [][ FailedCall => tb' = tb /\ elems' = elems ]_vars

\* C30 as the code has it: the flush at the head of start and end has
\* happened when the call fails: pending data is the text or tail of `last`
\* (by the flush rule) and the accumulator is empty; nothing else changes,
\* and without pending data nothing changes at all.
C30_FailedFlushOnly ==
    [][ FailedCall =>
          /\ tb' = [tb EXCEPT !.data = NullObj]
          /\ IF tb.data = NullObj THEN elems' = elems
             ELSE LET slot == JOIN_SET(tb.data, PyList_CheckExact(tb.data))
                  IN  elems' = IF tb.this = tb.last
                               THEN [elems EXCEPT ![tb.last].text = slot]
                               ELSE [elems EXCEPT ![tb.last].tail = slot] ]_vars

\* start, end, data, start: the second start fails and the data has become
\* the tail of the root
C30_Witness ==
    /\ ret.op = "start" /\ ret.err = "ParseError"
    /\ Len(elems) = 1 /\ tb.data = NullObj
    /\ JOIN_OBJ(elems[1].tail) # PyNone

(* ------------- specification of a parser with a custom target ----------- *)

MaxCalls == 3           \* calls delivered to the custom target in one run
MaxDataTg == 2          \* character data reported in one run

Capabilities == {"start", "data", "end", "comment", "pi", "doctype", "close"}

\* a parser made with XMLParser(target=t) for a target with any of the methods
InitTg ==
    /\ elems = <<>>
    /\ tb = treebuilder_new
    /\ ret = NoCall
    /\ ndata = 0
    /\ dicts = <<>>
    /\ memo = NoMemo
    /\ \E methods \in SUBSET Capabilities : xp = xmlparser_init(CustomTarget(methods))
    /\ it = NoIter

TgRoom == Len(xp.target.calls) < MaxCalls

NextTg ==
    \/ TgRoom /\ expat_start_doctype_handler("a", "pub", "sys")
    \/ TgRoom /\ \E tag \in Tags : expat_start_handler(tag)
    \/ TgRoom /\ ndata < MaxDataTg /\ expat_data_handler("hi")
    \/ TgRoom /\ expat_comment_handler("hi")
    \/ TgRoom /\ expat_pi_handler("a", "hi")
    \/ TgRoom /\ expat_end_handler
    \/ TgRoom /\ xmlparser_close

SpecTg == InitTg /\ [][NextTg]_vars

EventClasses == Capabilities \ {"close"}

\* C22 -- missing target capability: an event whose method the custom target
\* lacks is dropped without an error, an event whose method it has is
\* delivered as the next call, in the order of the events; close() on a
\* complete document without a target close method returns None.  The
\* built-in builder and the tree are never involved.
C22_MissingCapability ==
    [][ /\ ret'.op \in EventClasses =>
              /\ ret'.err = "none"
              /\ IF ret'.op \in xp.target.methods
                 THEN /\ Len(xp'.target.calls) = Len(xp.target.calls) + 1
                      /\ SubSeq(xp'.target.calls, 1, Len(xp.target.calls)) = xp.target.calls
                      /\ xp'.target.calls[Len(xp'.target.calls)].name = ret'.op
                 ELSE xp'.target.calls = xp.target.calls
        /\ (ret'.op = "parser_close" /\ "close" \notin xp.target.methods) =>
              /\ xp'.target.calls = xp.target.calls
              /\ IF document_complete(xp)
                 THEN ret'.err = "none" /\ ret'.node = None
                 ELSE ret'.err = "ParseError"
        /\ xp'.target.methods = xp.target.methods
        /\ tb' = tb /\ elems' = elems ]_vars

\* a target with start and end only: the character data was dropped, start
\* and end were delivered in order, close returned None
C22_Witness ==
    /\ ret.op = "parser_close" /\ ret.err = "none" /\ ret.node = None
    /\ xp.target.methods = {"start", "end"}
    /\ ndata = 1
    /\ xp.target.calls = <<[name |-> "start", args |-> <<"a">>],
                           [name |-> "end", args |-> <<"a">>]>>

(* ----------------------------- iterparse -------------------------------- *)

\* iterparse.__init__: the file (the number of non-empty chunks it will
\* still return), an empty event list shared with the builder, index 0, no
\* error, no root, and a parser on a new TreeBuilder.  pc is the position of
\* the caller: outside __next__ ("idle"), at the head of its loop ("next"),
\* or inside self._parser.feed(data) ("feed").
iterparse_init(chunks) ==
    [null |-> FALSE, file |-> chunks, index |-> 0, error |-> NoError,
     parser |-> TRUE, priv_root |-> None, root |-> None, pc |-> "idle"]

events_drained_early(i, t) == i.index + 1 >= Len(t.events.items)

\* self._events[self._index] raises IndexError
events_drained(i, t) == i.index >= Len(t.events.items)

next_index_same(i) == i.index

\* self._index += 1
next_index(i) == i.index + 1

except_SyntaxError_dropped(i, exc) == i

\* except SyntaxError as exc: self._error = exc
except_SyntaxError(i, exc) == [i EXCEPT !.error = exc]

\* one round of the loop of __next__: return the next queued event, else
\* raise the recorded error, else stop when the parser is gone, else empty
\* the list and read: a chunk is fed to the parser, the end of the file
\* closes it
iterparse_next ==
    /\ it.pc \in {"idle", "next"}
    /\ IF ~events_drained(it, tb)
       THEN /\ it' = [it EXCEPT !.index = next_index(it), !.pc = "idle"]
            /\ ret' = Ret("next", "item", None, tb.events.items[it.index + 1], "none")
            /\ UNCHANGED <<tb, xp>>
       ELSE IF it.error # NoError
       THEN /\ it' = [it EXCEPT !.error = NoError, !.pc = "idle"]
            /\ ret' = Ret("next", "feed", NULL, it.error, "ParseError")
            /\ UNCHANGED <<tb, xp>>
       ELSE IF ~it.parser
       THEN /\ it' = [it EXCEPT !.root = it.priv_root, !.pc = "idle"]
            /\ ret' = Ret("next", "stop", NULL, NullObj, "StopIteration")
            /\ UNCHANGED <<tb, xp>>
       ELSE /\ tb' = [tb EXCEPT !.events.items = <<>>]
            /\ IF it.file > 0
               THEN /\ it' = [it EXCEPT !.index = 0, !.file = @ - 1, !.pc = "feed"]
                    /\ ret' = Ret("read", "", None, NullObj, "none")
                    /\ xp' = xp
               ELSE /\ xp' = [xp EXCEPT !.parser.stopped = TRUE]
                    /\ IF document_complete(xp)
                       THEN /\ it' = [it EXCEPT !.index = 0, !.parser = FALSE,
                                                !.priv_root = treebuilder_done,
                                                !.pc = "next"]
                            /\ ret' = Ret("parser_close", "", treebuilder_done,
                                          NullObj, "none")
                       ELSE /\ it' = [it EXCEPT !.index = 0, !.pc = "idle"]
                            /\ ret' = Ret("next", "close", NULL,
                                          expat_set_error("XML_ERROR_NO_ELEMENTS", 0, <<>>),
                                          "ParseError")
    /\ UNCHANGED <<elems, ndata, dicts, memo>>

\* the end of self._parser.feed(data) in __next__: the chunk is read, or the
\* tokenizer has met a syntax error in it and expat_parse has raised
\* ParseError; a tokenizer that has stopped fails every later call
iterparse_feed_result(ok) ==
    /\ it.pc = "feed"
    /\ ~xp.parser.pending_ns /\ ~xp.parser.closing
    /\ ok => ~xp.parser.stopped
    /\ IF ok
       THEN /\ it' = [it EXCEPT !.pc = "next"]
            /\ ret' = Ret("it_feed", "", None, NullObj, "none")
            /\ xp' = xp
       ELSE LET exc == expat_set_error("XML_ERROR_SYNTAX", it.file + 1, <<>>)
            IN  /\ it' = [except_SyntaxError(it, exc) EXCEPT !.pc = "next"]
                /\ ret' = Ret("it_feed", "", NULL, exc, "ParseError")
                /\ xp' = [xp EXCEPT !.parser.stopped = TRUE]
    /\ UNCHANGED <<elems, tb, ndata, dicts, memo>>

(* ---------------------- specification of iterparse ---------------------- *)

MaxChunks == 2          \* non-empty chunks the file returns

\* the event tuples iterparse is made with
ItEventSets ==
    {e \in EventSets : e.none \/ setevents_loop(treebuilder_new, e.names).err = "none"}

\* iterparse(file, events) for a file of any number of chunks
InitIt ==
    /\ elems = <<>>
    /\ \E event_set \in ItEventSets :
          LET cleared == setevents_clear(treebuilder_new)
          IN  tb = IF event_set.none
                   THEN [cleared EXCEPT !.end_event_obj = TRUE]
                   ELSE setevents_loop(cleared, event_set.names).t
    /\ ret = NoCall
    /\ ndata = 0
    /\ dicts = <<>>
    /\ memo = NoMemo
    /\ xp = xmlparser_new
    /\ \E chunks \in 0..MaxChunks : it = iterparse_init(chunks)

Feeding == it.pc = "feed"

NextIt ==
    \/ iterparse_next
    \/ Feeding /\ \E tag \in Tags : expat_start_handler(tag)
    \/ Feeding /\ expat_end_handler
    \/ \E ok \in BOOLEAN : iterparse_feed_result(ok)

SpecIt == InitIt /\ [][NextIt]_vars

\* the consumer keeps calling next() and every call into the parser returns
SpecItLive == SpecIt /\ WF_vars(NextIt)

(* ======================== properties of iterparse ======================= *)

\* C25 -- delayed error reporting: a failing feed records its error and
\* next() goes on; while events are queued next() returns them and the error
\* stays recorded; the call that finds the queue drained raises the recorded
\* error and clears it; the error is cleared in no other way and no feed is
\* started while one is recorded.
C25_DelayedError ==
    [][ /\ (ret'.op = "it_feed" /\ ret'.err # "none") =>
              /\ it'.error = ret'.obj /\ it'.error # NoError
              /\ it'.pc = "next"
              /\ tb'.events = tb.events
        /\ (ret'.op = "next" /\ ~events_drained(it, tb)) =>
              /\ ret'.arg = "item" /\ ret'.err = "none"
              /\ ret'.obj = tb.events.items[it.index + 1]
              /\ it'.error = it.error
        /\ (ret'.op = "next" /\ events_drained(it, tb) /\ it.error # NoError) =>
              /\ ret'.arg = "feed" /\ ret'.err = "ParseError"
              /\ ret'.obj = it.error
              /\ it'.error = NoError
        /\ (it.error # NoError /\ it'.error # it.error) =>
              ret'.op = "next" /\ ret'.arg = "feed"
        /\ (it.error # NoError /\ it.pc # "feed") => it'.pc # "feed" ]_vars

\* the failing feed had queued two events; both have been returned and the
\* error has then been raised
C25_Witness ==
    /\ ret.op = "next" /\ ret.arg = "feed" /\ ret.err = "ParseError"
    /\ Len(tb.events.items) = 2 /\ it.index = 2
    /\ it.error = NoError

\* C26 -- no parser reuse after a fatal error: a chunk is fed only to a
\* parser whose tokenizer has not stopped.  (The tokenizer stops at a failed
\* feed or at close; close comes after the last chunk, so a stopped
\* tokenizer with chunks left has failed in a feed, and the loop reads only
\* after that error has been raised.)
C26_NoReuseAfterError ==
    [][ (it.pc # "feed" /\ it'.pc = "feed") => ~xp.parser.stopped ]_vars

\* q2 continues q1: nothing removed, nothing reordered
Extends(q1, q2) ==
    Len(q2) >= Len(q1) /\ SubSeq(q2, 1, Len(q1)) = q1

\* C27 -- exactly-once event delivery: next() returns the entry at the read
\* index and moves the index one on, so the entries are returned once each
\* in append order; the builder only appends; the queue is emptied and the
\* index reset only in a step that finds every entry returned.
C27_ExactlyOnce ==
    [][ /\ (ret'.op = "next" /\ ret'.arg = "item") =>
              /\ it.index < Len(tb.events.items)
              /\ ret'.obj = tb.events.items[it.index + 1]
              /\ it'.index = it.index + 1
              /\ tb'.events = tb.events
        /\ ~Extends(tb.events.items, tb'.events.items) =>
              /\ it.index = Len(tb.events.items)
              /\ tb'.events.items = <<>> /\ it'.index = 0
        /\ it'.index # it.index =>
              \/ ret'.op = "next" /\ ret'.arg = "item"
              \/ it'.index = 0 /\ it.index = Len(tb.events.items)
        /\ it'.index <= Len(tb'.events.items) ]_vars

\* two chunks with events: the entries of the first were all returned, the
\* queue was emptied, and the second entry of the second chunk is returned
C27_Witness ==
    /\ ret.op = "next" /\ ret.arg = "item"
    /\ it.file = 0 /\ it.index = 2 /\ Len(tb.events.items) = 2
    /\ Len(elems) = 3
    /\ ret.obj = tb.events.items[2]

Returned == it.pc = "idle"

OpenElements == IF tb.this = None THEN {} ELSE {tb.this} \cup Range(AncestorChain(elems, tb.this))

\* C31 -- end closes innermost-first: a successful end, whatever tag it is
\* given, returns the open element started last (the highest reference
\* among the open ones), makes it `last` and makes its parent, or None for
\* the root, `this`; the other open elements stay open.
C31_InnermostFirst ==
    [][ (ret'.op = "end" /\ ret'.err = "none") =>
          LET chain == AncestorChain(elems, tb.this)
          IN  /\ ret'.node = tb.this
              /\ \A e \in OpenElements : e <= ret'.node
              /\ tb'.last = tb.this
              /\ tb'.this = IF chain = <<>> THEN None ELSE chain[Len(chain)]
              /\ OpenElements' = OpenElements \ {tb.this} ]_vars

\* end("z") has closed element 3, whose tag is "a", inside 2 inside 1
C31_Witness ==
    /\ ret.op = "end" /\ ret.arg = "z" /\ ret.node = 3
    /\ tb.this = 2 /\ tb.last = 3 /\ tb.index = 2
    /\ Children(elems, 2) = <<3>> /\ elems[3].tag = "a"

\* C32 -- an element is complete, except for its tail, when its end event is
\* queued: a successful end of E leaves E.tail unset and, if end events are
\* recorded, puts (end, E) last in the queue; from then on (E is not open)
\* the builder changes neither E.text nor E's children; a tail is assigned
\* only by a start or end call, to an element that is not open; a successful
\* start of E leaves E.text unset, has made E the last child of its parent
\* and, if start events are recorded, puts (start, E) last in the queue.
C32_CompleteAtEnd ==
    [][ /\ (ret'.op = "end" /\ ret'.err = "none") =>
              /\ IsNoneText(elems'[ret'.node].tail)
              /\ ret'.node \notin OpenElements'
              /\ tb.end_event_obj =>
                    tb'.events.items = Append(tb.events.items, Entry("end", ret'.node))
        /\ \A e \in Refs(elems) \ OpenElements :
              /\ elems'[e].text = elems[e].text
              /\ Children(elems', e) = Children(elems, e)
        /\ \A e \in Refs(elems) :
              elems'[e].tail # elems[e].tail =>
                  /\ ret'.op \in {"start", "end"}
                  /\ e \notin OpenElements
        /\ (ret'.op = "start" /\ ret'.err = "none") =>
              /\ IsNoneText(elems'[ret'.node].text)
              /\ tb.this # None =>
                    /\ Children(elems', tb.this) # <<>>
                    /\ Children(elems', tb.this)[Len(Children(elems', tb.this))] = ret'.node
              /\ tb.start_event_obj =>
                    tb'.events.items = Append(tb.events.items, Entry("start", ret'.node)) ]_vars

\* (end, 2) is in the queue; element 2 got its text before its end and its
\* tail at the end of its parent
C32_Witness ==
    /\ ret.op = "end" /\ ret.node = 1
    /\ \E i \in DOMAIN tb.events.items : tb.events.items[i] = Entry("end", 2)
    /\ Children(elems, 1) = <<2>>
    /\ ~IsNoneText(elems[2].text) /\ ~IsNoneText(elems[2].tail)

\* itertext(node): node.text if it is not empty, then for every child the
\* itertext of the child and the child's tail if it is not empty
RECURSIVE itertext(_, _)
itertext(els, node) ==
    LET fragment(p) ==
            LET value == joined_value(p)
            IN  IF value.t = "str" /\ value.v[1] # "" THEN value.v ELSE <<>>
        RECURSIVE of_children(_)
        of_children(kids) ==
            IF kids = <<>> THEN <<>>
            ELSE itertext(els, Head(kids)) \o fragment(els[Head(kids)].tail)
                     \o of_children(Tail(kids))
    IN  fragment(els[node].text) \o of_children(Children(els, node))

\* the character data the builder holds for the document: what itertext
\* yields for the root, followed by the data still pending
Content(els, t) ==
    concat(itertext(els, t.root)) \o
        (IF t.data = NullObj THEN "" ELSE list_join(t.data.v))

\* C33 -- character data is conserved: while the root is open, data(d) adds
\* d at the end of the content and start and end leave the content as it
\* is, so that when the root is closed the concatenation of itertext(root)
\* is the concatenation of the fragments in call order (nothing is pending
\* then); a text or tail slot is written only when it is unset.
C33_DataConserved ==
    [][ tb.index > 0 =>
          /\ ret'.op = "data" => Content(elems', tb') = Content(elems, tb) \o ret'.arg
          /\ ret'.op \in {"start", "end"} =>
                /\ ret'.err = "none"
                /\ Content(elems', tb') = Content(elems, tb)
                /\ tb'.data = NullObj
          /\ \A e \in Refs(elems) :
                /\ elems'[e].text # elems[e].text => IsNoneText(elems[e].text)
                /\ elems'[e].tail # elems[e].tail => IsNoneText(elems[e].tail) ]_vars

\* the root is closed; its text, the tail of its first child and the text
\* of its second child hold the three fragments
C33_Witness ==
    /\ tb.index = 0 /\ ret.op = "end" /\ ret.err = "none" /\ ndata = 3
    /\ Children(elems, 1) = <<2, 3>>
    /\ Len(itertext(elems, 1)) = 3
    /\ concat(itertext(elems, 1)) = "hitheretail"
    /\ ~IsNoneText(elems[2].tail) /\ ~IsNoneText(elems[3].text)

(* ------------------------ extended slices -------------------------------- *)

\* how many selected positions an extended slice visits before position k
slice_rank(sl, n, k) ==
    Cardinality({p \in slice_positions(sl, n) :
                    IF slice_step(sl) > 0 THEN p < k ELSE p > k})

\* C34 -- slice assignment with a step other than 1 and a replacement as
\* long as the slice puts the replacement items, in their order, at the
\* positions start, start+step, ... (for positive and negative steps) and
\* leaves every other position and the length as they were.
C34_ExtendedSliceAssign ==
    [][ ( /\ ret'.op = "setslice"
          /\ slice_step(ret'.arg.slice) \notin {0, 1}
          /\ Len(ret'.arg.seq) =
                Cardinality(slice_positions(ret'.arg.slice,
                                Len(Children(elems, ret'.arg.self)))) ) =>
          LET old == Children(elems, ret'.arg.self)
              new == Children(elems', ret'.arg.self)
              sl  == ret'.arg.slice
              n   == Len(old)
          IN  /\ ret'.err = "none"
              /\ Len(new) = n
              /\ \A k \in 0..(n - 1) :
                    new[k + 1] = IF k \in slice_positions(sl, n)
                                 THEN ret'.arg.seq[slice_rank(sl, n, k) + 1]
                                 ELSE old[k + 1] ]_vars

C34_Witness ==
    /\ ret.op = "setslice" /\ ret.err = "none"
    /\ ret.arg.slice.step = SliceInt(-2)
    /\ ret.arg.slice.start = SliceNone /\ ret.arg.slice.stop = SliceNone
    /\ ret.arg.seq = <<2, 3>>
    /\ Children(elems, Self) = <<4, 3, 4, 2>>

\* C35 -- slice deletion del elem[start:stop:step], for any positive or
\* negative step and any bounds, removes exactly the children at the
\* selected positions, keeps the others in their original relative order
\* and reduces the length by the slice length; an empty slice changes
\* nothing.
C35_SliceDelete ==
    [][ (ret'.op = "delslice" /\ slice_step(ret'.arg.slice) # 0) =>
          LET old == Children(elems, ret'.arg.self)
              new == Children(elems', ret'.arg.self)
              n   == Len(old)
              P   == slice_positions(ret'.arg.slice, n)
          IN  /\ ret'.err = "none"
              /\ Len(new) = n - Cardinality(P)
              /\ \A k \in (0..(n - 1)) \ P :
                    new[Cardinality((0..(k - 1)) \ P) + 1] = old[k + 1]
              /\ (P = {} => new = old) ]_vars

C35_Witness ==
    /\ ret.op = "delslice" /\ ret.err = "none"
    /\ ret.arg.slice.step = SliceInt(-2)
    /\ ret.arg.slice.start = SliceNone /\ ret.arg.slice.stop = SliceInt(0)
    /\ Children(elems, Self) = <<2, 4>>

(* ------- Element specification (items of any type offered as children) --- *)

MaxChKids == 3          \* children of the Element in this run

ChSliceBounds == {SliceNone, SliceInt(1)}
ChSlices == [start : ChSliceBounds, stop : ChSliceBounds,
             step : {SliceNone, SliceInt(-1), SliceInt(2)}]

RoomCh(self, n) == element_length(elems, self) + n <= MaxChKids

RoomChSlice(self, sl, seq) ==
    RoomCh(self, Len(seq)
                 - PySlice_GetIndicesEx(sl, element_length(elems, self)).slicelen)

NextCh ==
    \/ take_result
    \/ Idle /\ RoomCh(Self, 1) /\ \E e \in Kids \cup {NotAnElement} :
          element_append(Self, e)
    \/ Idle /\ \E seq \in ExtendSeqs :
          RoomCh(Self, Len(seq)) /\ element_extend(Self, seq)
    \/ Idle /\ RoomCh(Self, 1) /\ \E i \in Indexes, e \in Kids :
          element_insert(Self, i, e)
    \/ Idle /\ \E e \in Kids : element_remove(Self, e)
    \/ Idle /\ \E i \in Indexes, e \in Kids \cup {NULL, NotAnElement} :
          element_setitem(Self, i, e)
    \/ Idle /\ \E sl \in ChSlices, seq \in ExtendSeqs :
          RoomChSlice(Self, sl, seq) /\ element_ass_subscr(Self, sl, seq)
    \/ Idle /\ \E sl \in ChSlices : element_ass_subscr_delete(Self, sl)

SpecCh == InitEl /\ [][NextCh]_vars

\* C36 -- children are always Elements: after any sequence of append,
\* extend, insert, elem[i] = v, elem[a:b:c] = seq, remove and delete, every
\* member of every element's child sequence is an Element.
C36_ChildrenAreElements ==
    \A e \in Refs(elems) :
        \A i \in 1..Len(Children(elems, e)) :
            Element_Check(elems, Children(elems, e)[i])

\* C37 -- extend(seq) is all-or-nothing: when it raises the type error for
\* an item that is not an Element, the child sequence is the same as before
\* the call (no prefix of seq has been appended).
C37_ExtendAllOrNothing ==
    [][ (ret'.op = "extend" /\ ret'.err = "TypeError") =>
          Children(elems', ret'.arg.self) = Children(elems, ret'.arg.self) ]_vars

(* ------------------------- universal names ------------------------------- *)

\* A name is the sequence of its characters.  The tokenizer gives names in
\* valid UTF-8, so decoding keeps the characters.
MaxName  == 3           \* characters of a raw name
MaxNames == 2           \* entries of the names dictionary

NameChars == {"u", "}"}
RawNames  == UNION {[1..n -> NameChars] : n \in 1..MaxName}

\* a name left as the tokenizer gives it
universal_name_raw(string) == string

\* "look for namespace separator" / "convert to universal name"
universal_name(string) ==
    IF \E i \in 1..Len(string) : string[i] = "}"
    THEN <<"{">> \o string
    ELSE string

\* makeuniversal(self, string): the object for the raw name, from the names
\* dictionary or made now and added to it
makeuniversal(string) ==
    LET value == PyDict_GetItem(xp.names, string)
        new   == [t |-> "str", v |-> universal_name(string), id |-> xp.made + 1]
    IN  /\ IF value # {}
           THEN /\ xp' = xp
                /\ ret' = Ret("makeuniversal", string, NULL,
                              CHOOSE o \in value : TRUE, "none")
           ELSE /\ xp' = [xp EXCEPT !.names = PyDict_SetItem(@, string, new),
                                    !.made  = @ + 1]
                /\ ret' = Ret("makeuniversal", string, NULL, new, "none")
        /\ UNCHANGED <<elems, tb, ndata, dicts, memo, it>>

NamesRoom(string) ==
    PyDict_GetItem(xp.names, string) # {} \/ Cardinality(xp.names) < MaxNames

NextNm ==
    \/ take_result
    \/ Idle /\ \E string \in RawNames : NamesRoom(string) /\ makeuniversal(string)

SpecNm == InitXp /\ [][NextNm]_vars

\* C38 -- universal names are canonical: a raw name with the separator '}'
\* maps to '{' followed by the raw name and a raw name without it maps to
\* itself; distinct raw names have distinct universal names; asking again
\* for a raw name gives the identical cached object and adds no entry.
C38_UniversalNames ==
    [][ ret'.op = "makeuniversal" =>
          LET string == ret'.arg
              cached == {p \in xp.names : p[1] = string}
          IN  /\ ret'.obj.v = IF \E i \in 1..Len(string) : string[i] = "}"
                              THEN <<"{">> \o string
                              ELSE string
              /\ <<string, ret'.obj>> \in xp'.names
              /\ xp.names \subseteq xp'.names
              /\ \A p, q \in xp'.names :
                    /\ p[1] # q[1] => p[2].v # q[2].v /\ p[2].id # q[2].id
                    /\ p[1] = q[1] => p = q
              /\ cached # {} =>
                    /\ xp'.names = xp.names
                    /\ \A p \in cached : ret'.obj = p[2] ]_vars

\* the name 'u}u' was asked for again, with another name asked in between
C38_Witness ==
    /\ ret.op = "makeuniversal"
    /\ ret.arg = <<"u", "}", "u">>
    /\ ret.obj = [t |-> "str", v |-> <<"{", "u", "}", "u">>, id |-> 1]
    /\ xp.made = 2

(* ------------------------------ find ------------------------------------- *)

\* Tags and paths are sequences of characters in this specification.
MaxFdKids == 2          \* children of one Element
MaxPath   == 2          \* characters of a path made of arbitrary characters

PathChars == {"a", ".", "{", "}"}
FdTags    == {<<"a">>, <<"{", ".", "}", "a">>}
Paths     == FdTags \cup UNION {[1..n -> PathChars] : n \in 1..MaxPath}
FdKids    == {2, 3, 5}  \* 2 and 5 are Elements, 3 is of an Element subclass
\* the namespaces and default arguments tried with a path
FdNamespaces(tag) == IF tag \in FdTags THEN {None, 1} ELSE {None}
FdDefaults(tag)   == IF tag \in FdTags THEN {PyNone, PyStr("d")} ELSE {PyStr("d")}

\* #define PATHCHAR(ch)
PATHCHAR(ch) == ch \in {"/", "*", "[", "@", "."}

checkpath_braces_ignored(tag, i, check) ==
    \E k \in 1..Len(tag) : PATHCHAR(tag[k])

\* the loop of checkpath from character i on
RECURSIVE checkpath(_, _, _)
checkpath(tag, i, check) ==
    IF i > Len(tag) THEN FALSE
    ELSE IF tag[i] = "{" THEN checkpath(tag, i + 1, FALSE)
    ELSE IF tag[i] = "}" THEN checkpath(tag, i + 1, TRUE)
    ELSE IF check /\ PATHCHAR(tag[i]) THEN TRUE
    ELSE checkpath(tag, i + 1, check)

\* #define Element_CheckExact(op) (Py_TYPE(op) == &Element_Type)
Element_CheckExact(els, op) == Element_Check(els, op) /\ op \notin EqualRefs

\* the call handed to the path-evaluation module
Delegated == [t |-> "delegated", v |-> <<>>]

\* the loop of find, findtext and findall: the positions of the children
\* that pass the type test and whose tag equals `tag`
find_loop(els, self, tag) ==
    {i \in 1..element_length(els, self) :
        /\ Element_CheckExact(els, Children(els, self)[i])
        /\ els[Children(els, self)[i]].tag = tag}

Min(S) == CHOOSE i \in S : \A j \in S : i <= j

RECURSIVE findall_loop(_, _, _)
findall_loop(kids, hits, i) ==
    IF i > Len(kids) THEN <<>>
    ELSE (IF i \in hits THEN <<kids[i]>> ELSE <<>>)
            \o findall_loop(kids, hits, i + 1)

element_find(self, tag, namespaces) ==
    LET arg  == [self |-> self, path |-> tag, namespaces |-> namespaces]
        hits == find_loop(elems, self, tag)
    IN  /\ ret' = IF checkpath(tag, 1, TRUE) \/ namespaces # None
                  THEN Ret("find", arg, NULL, Delegated, "none")
                  ELSE IF hits = {}
                  THEN Ret("find", arg, None, NullObj, "none")
                  ELSE Ret("find", arg, Children(elems, self)[Min(hits)],
                           NullObj, "none")
        /\ UNCHANGED <<elems, tb, ndata, dicts, memo, xp, it>>

element_findtext(self, tag, default_value, namespaces) ==
    LET arg  == [self |-> self, path |-> tag, namespaces |-> namespaces,
                 default |-> default_value]
        hits == find_loop(elems, self, tag)
        item == Children(elems, self)[Min(hits)]
        text == joined_value(elems[item].text)
    IN  IF checkpath(tag, 1, TRUE) \/ namespaces # None
        THEN /\ ret' = Ret("findtext", arg, NULL, Delegated, "none")
             /\ UNCHANGED <<elems, tb, ndata, dicts, memo, xp, it>>
        ELSE IF hits = {}
        THEN /\ ret' = Ret("findtext", arg, NULL, default_value, "none")
             /\ UNCHANGED <<elems, tb, ndata, dicts, memo, xp, it>>
        ELSE /\ elems' = [elems EXCEPT ![item].text = joined_slot(@)]
             /\ ret' = Ret("findtext", arg, NULL,
                           IF text = PyNone THEN PyStr("") ELSE text, "none")
             /\ UNCHANGED <<tb, ndata, dicts, memo, xp, it>>

element_findall(self, tag, namespaces) ==
    LET arg  == [self |-> self, path |-> tag, namespaces |-> namespaces]
        hits == find_loop(elems, self, tag)
    IN  /\ ret' = IF checkpath(tag, 1, TRUE) \/ namespaces # None
                  THEN Ret("findall", arg, NULL, Delegated, "none")
                  ELSE Ret("findall", arg, NULL,
                           PyList(findall_loop(Children(elems, self), hits, 1)),
                           "none")
        /\ UNCHANGED <<elems, tb, ndata, dicts, memo, xp, it>>

\* five Elements, 2 and 5 with a tag from FdTags and the others with the
\* tag 'a'; those with an even reference have a text
InitFd ==
    /\ elems \in {els \in [1..5 -> {[create_new_element(t) EXCEPT
                                       !.text = JOIN_SET(x, FALSE)] :
                                    t \in FdTags, x \in {PyNone, PyStr("t")}}] :
                    \A e \in 1..5 :
                        /\ (els[e].text.t = "str") = (e % 2 = 0)
                        /\ e \notin {2, 5} => els[e].tag = <<"a">>}
    /\ tb = treebuilder_new
    /\ ret = NoCall
    /\ ndata = 0
    /\ dicts = <<>>
    /\ memo = NoMemo
    /\ xp = xmlparser_new
    /\ it = NoIter

RoomFd(self) == element_length(elems, self) < MaxFdKids

NextFd ==
    \/ take_result
    \/ Idle /\ \E self \in {1, 2} : \E e \in (IF self = 1 THEN FdKids ELSE {5}) :
          RoomFd(self) /\ element_append(self, e)
    \/ Idle /\ \E tag \in Paths : \E namespaces \in FdNamespaces(tag) :
          element_find(Self, tag, namespaces)
    \/ Idle /\ \E tag \in Paths : \E d \in FdDefaults(tag) :
          \E namespaces \in FdNamespaces(tag) :
              element_findtext(Self, tag, d, namespaces)
    \/ Idle /\ \E tag \in Paths : \E namespaces \in FdNamespaces(tag) :
          element_findall(Self, tag, namespaces)

SpecFd == InitFd /\ [][NextFd]_vars

\* no metacharacter / * [ @ . outside a {...} block
PlainPath(path) ==
    \A i \in 1..Len(path) :
        PATHCHAR(path[i]) =>
            \E j \in 1..(i - 1) :
                /\ path[j] = "{"
                /\ \A k \in (j + 1)..(i - 1) : path[k] # "}"

\* the positions of the children of self whose tag equals path
TagMatches(els, self, path) ==
    {i \in 1..Len(Children(els, self)) : els[Children(els, self)[i]].tag = path}

\* C39 -- fast-path find: for a path with no metacharacter outside a {...}
\* block and no namespace map, find returns the first immediate child, in
\* child order, whose tag equals the path, or none; findall returns all such
\* children in child order; findtext returns that first child's text (the
\* empty string if its text is none) or the default when nothing matches.
\* Grandchildren are never returned.
C39_FastPathFind ==
    [][ ( /\ ret'.op \in {"find", "findall", "findtext"}
          /\ PlainPath(ret'.arg.path)
          /\ ret'.arg.namespaces = None ) =>
          LET self == ret'.arg.self
              kids == Children(elems, self)
              M    == TagMatches(elems, self, ret'.arg.path)
          IN  /\ ret'.op = "find" =>
                    ret'.node = IF M = {} THEN None ELSE kids[Min(M)]
              /\ ret'.op = "findall" =>
                    /\ ret'.obj.t = "list"
                    /\ Len(ret'.obj.v) = Cardinality(M)
                    /\ \A i \in M :
                          ret'.obj.v[Cardinality({j \in M : j < i}) + 1] = kids[i]
              /\ ret'.op = "findtext" =>
                    ret'.obj = IF M = {} THEN ret'.arg.default
                               ELSE IF elems[kids[Min(M)]].text.t = "none"
                                    THEN PyStr("")
                                    ELSE joined_value(elems[kids[Min(M)]].text) ]_vars

(* ---------------------- namespace parts of a tag ------------------------- *)

\* In this specification a tag is a str or a bytes object with its
\* characters, and an Element has the fields ns and localName as well.
MaxNlElems == 2         \* Element objects in one run

NlNone        == [kind |-> "none", s |-> <<>>]
NlObj(kind, s) == [kind |-> kind, s |-> s]
NlNames == {<<"a">>, <<"{", "u", "}", "a">>, <<"{", "u", "}", "b">>}
NlTags  == {NlObj(kind, s) : kind \in {"str", "bytes"}, s \in NlNames}

\* what PyBytes_AS_STRING(tag) points at: the characters of a bytes object;
\* for a str object either its characters (the branch under Py_USING_UNICODE
\* is compiled in) or memory of the object that is not its characters
NlReads(tag) ==
    IF tag.kind = "bytes" THEN {tag.s} ELSE {tag.s, <<"x">>}

\* "look for namespace separator": the first position of '}' in the bytes
separator(bytes) ==
    IF \E p \in 1..Len(bytes) : bytes[p] = "}"
    THEN CHOOSE p \in 1..Len(bytes) :
            bytes[p] = "}" /\ \A q \in 1..(p - 1) : bytes[q] # "}"
    ELSE 0

\* the parts of a tag that is always taken as a plain name
namespace_parts_plain(tag, bytes) == [ns |-> NlNone, localName |-> tag]

\* feed_new_element: ns and localName from the tag ("convert from universal
\* name", "plain name; use key as tag")
namespace_parts(tag, bytes) ==
    LET p == separator(bytes)
    IN  IF p # 0
        THEN [ns        |-> NlObj("str", SubSeq(bytes, 2, p - 1)),
              localName |-> NlObj("str", SubSeq(bytes, p + 1, Len(bytes)))]
        ELSE [ns |-> NlNone, localName |-> tag]

\* Element(tag)
element_init_tag(tag, bytes) ==
    /\ elems' = Append(elems, feed_new_element(dicts, tag, NULL)
                                 @@ namespace_parts(tag, bytes))
    /\ ret' = Ret("Element", tag, Len(elems) + 1, NullObj, "none")
    /\ UNCHANGED <<tb, ndata, dicts, memo, xp, it>>

\* elem.tag = value
element_setattro_tag(self, value) ==
    /\ elems' = [elems EXCEPT ![self].tag = value]
    /\ ret' = Ret("setattr_tag", [self |-> self, value |-> value],
                  None, NullObj, "none")
    /\ UNCHANGED <<tb, ndata, dicts, memo, xp, it>>

\* elem.clear()
element_clearmethod(self) ==
    /\ elems' = [elems EXCEPT ![self].extra = NoExtra,
                              ![self].text = JOIN_SET(PyNone, FALSE),
                              ![self].tail = JOIN_SET(PyNone, FALSE),
                              ![self].localName = NlNone,
                              ![self].ns = NlNone]
    /\ ret' = Ret("clear", [self |-> self], None, NullObj, "none")
    /\ UNCHANGED <<tb, ndata, dicts, memo, xp, it>>

\* elem.copy(): the copy takes ns and localName from self
element_copy_tag(self) ==
    /\ elems' = Append(elems,
                   [copy_of(elems, dicts, self)
                       @@ namespace_parts(elems[self].tag, elems[self].tag.s)
                    EXCEPT !.localName = elems[self].localName,
                           !.ns = elems[self].ns])
    /\ ret' = Ret("copy", [self |-> self], Len(elems) + 1, NullObj, "none")
    /\ UNCHANGED <<tb, ndata, dicts, memo, xp, it>>

InitNl ==
    /\ elems = <<>>
    /\ tb = treebuilder_new
    /\ ret = NoCall
    /\ ndata = 0
    /\ dicts = <<>>
    /\ memo = NoMemo
    /\ xp = xmlparser_new
    /\ it = NoIter

NlRoom == Len(elems) < MaxNlElems

NextNl ==
    \/ take_result
    \/ Idle /\ NlRoom /\ \E tag \in NlTags : \E bytes \in NlReads(tag) :
          element_init_tag(tag, bytes)
    \/ Idle /\ \E self \in Refs(elems), value \in NlTags :
          element_setattro_tag(self, value)
    \/ Idle /\ \E self \in Refs(elems) : element_clearmethod(self)
    \/ Idle /\ NlRoom /\ \E self \in Refs(elems) : element_copy_tag(self)

SpecNl == InitNl /\ [][NextNl]_vars

\* C40 -- namespace parts follow the tag: after construction, assigning
\* tag, clear and copy, ns and localName of every Element are the
\* decomposition of its current tag: for {uri}local, ns = uri and
\* localName = local; for a plain tag, ns is none and localName is the tag.
C40_NamespaceParts ==
    \A e \in Refs(elems) :
        LET t == elems[e].tag.s
            p == separator(t)
        IN  IF t[1] = "{" /\ p # 0
            THEN /\ elems[e].ns.kind # "none"
                 /\ elems[e].ns.s = SubSeq(t, 2, p - 1)
                 /\ elems[e].localName.kind # "none"
                 /\ elems[e].localName.s = SubSeq(t, p + 1, Len(t))
            ELSE /\ elems[e].ns.kind = "none"
                 /\ elems[e].localName.kind # "none"
                 /\ elems[e].localName.s = t

====
